---------------------------- MODULE Spec2Model ----------------------------
(***************************************************************************)
(* Model of the single-user health database server (src/userdb.py and its  *)
(* start-only-purge twin src/agents/userdb.py): the Safe Query Builder     *)
(* (table_query / table_insert / table_update / table_delete), and the     *)
(* Retention Sweeper (_purge_expired), over the SQLite storage they drive. *)
(***************************************************************************)
EXTENDS Integers, Sequences, FiniteSets, TLC

(***************************************************************************)
(* SQL values.  Python binds None / int / str as NULL / INTEGER / TEXT.    *)
(* A text is a sequence of one-character strings.                          *)
(***************************************************************************)
NullV == [t |-> "null", i |-> 0, s |-> <<>>]
IntV(n) == [t |-> "int", i |-> n, s |-> <<>>]
TextV(str) == [t |-> "text", i |-> 0, s |-> str]

IsNull(v) == v.t = "null"

UpperLetters == <<"A","B","C","D","E","F","G","H","I","J","K","L","M",
                  "N","O","P","Q","R","S","T","U","V","W","X","Y","Z">>
LowerLetters == <<"a","b","c","d","e","f","g","h","i","j","k","l","m",
                  "n","o","p","q","r","s","t","u","v","w","x","y","z">>
Digits == <<"0","1","2","3","4","5","6","7","8","9">>

InSeq(c, sq) == \E k \in 1..Len(sq) : sq[k] = c
IndexOf(c, sq) == CHOOSE k \in 1..Len(sq) : sq[k] = c

\* str.lower() / str.upper() on one ASCII character
Lower(c) == IF InSeq(c, UpperLetters) THEN LowerLetters[IndexOf(c, UpperLetters)] ELSE c
Upper(c) == IF InSeq(c, LowerLetters) THEN UpperLetters[IndexOf(c, LowerLetters)] ELSE c
UpperStr(str) == [k \in 1..Len(str) |-> Upper(str[k])]

IsAlnumChar(c) == InSeq(c, UpperLetters) \/ InSeq(c, LowerLetters) \/ InSeq(c, Digits)

\* str.strip(): leading and trailing blanks removed
RECURSIVE LStrip(_)
LStrip(str) == IF str # <<>> /\ Head(str) = " " THEN LStrip(Tail(str)) ELSE str
RECURSIVE RStrip(_)
RStrip(str) == IF str # <<>> /\ str[Len(str)] = " "
               THEN RStrip(SubSeq(str, 1, Len(str) - 1)) ELSE str
Strip(str) == RStrip(LStrip(str))

\* str.replace("_", "")
RECURSIVE DropUnderscore(_)
DropUnderscore(str) == IF str = <<>> THEN <<>>
                       ELSE IF Head(str) = "_" THEN DropUnderscore(Tail(str))
                       ELSE <<Head(str)>> \o DropUnderscore(Tail(str))

\* str.isalnum(): non-empty and every character alphanumeric
IsAlnum(str) == str # <<>> /\ \A k \in 1..Len(str) : IsAlnumChar(str[k])

(***************************************************************************)
(* SQLite's LIKE: % matches any run, _ one character, ASCII letters are    *)
(* compared without regard to case.                                        *)
(***************************************************************************)
RECURSIVE LikeMatch(_, _)
LikeMatch(pat, str) ==
    IF pat = <<>> THEN str = <<>>
    ELSE IF Head(pat) = "%"
         THEN LikeMatch(Tail(pat), str) \/ (str # <<>> /\ LikeMatch(pat, Tail(str)))
    ELSE IF str = <<>> THEN FALSE
    ELSE IF Head(pat) = "_" THEN LikeMatch(Tail(pat), Tail(str))
    ELSE Lower(Head(pat)) = Lower(Head(str)) /\ LikeMatch(Tail(pat), Tail(str))

(***************************************************************************)
(* Conversions SQLite applies to a value stored in, or compared with, a    *)
(* column of INTEGER or TEXT affinity.                                     *)
(***************************************************************************)
RECURSIVE NatToText(_)
NatToText(n) == IF n < 10 THEN <<Digits[n + 1]>>
                ELSE NatToText(n \div 10) \o <<Digits[(n % 10) + 1]>>
IntToText(n) == IF n < 0 THEN <<"-">> \o NatToText(0 - n) ELSE NatToText(n)

IsDigits(str) == str # <<>> /\ \A k \in 1..Len(str) : InSeq(str[k], Digits)
LooksInt(str) == IF str # <<>> /\ Head(str) = "-" THEN IsDigits(Tail(str)) ELSE IsDigits(str)
RECURSIVE DigitsToNat(_)
DigitsToNat(str) == IF str = <<>> THEN 0
                    ELSE DigitsToNat(SubSeq(str, 1, Len(str) - 1)) * 10
                         + (IndexOf(str[Len(str)], Digits) - 1)
TextToInt(str) == IF Head(str) = "-" THEN 0 - DigitsToNat(Tail(str)) ELSE DigitsToNat(str)

ApplyAffinity(aff, v) ==
    IF aff = "INTEGER" /\ v.t = "text" /\ LooksInt(v.s) THEN IntV(TextToInt(v.s))
    ELSE IF aff = "TEXT" /\ v.t = "int" THEN TextV(IntToText(v.i))
    ELSE v

\* the text a value is read as by LIKE
AsText(v) == IF v.t = "int" THEN IntToText(v.i) ELSE v.s

\* characters in ASCII order (BINARY collation of TEXT)
Ascii == <<" ", "%", "(", ")", "-">> \o Digits \o <<";">> \o UpperLetters
         \o <<"_">> \o LowerLetters
Code(c) == IndexOf(c, Ascii)
RECURSIVE TextLess(_, _)
TextLess(a, b) == IF b = <<>> THEN FALSE
                  ELSE IF a = <<>> THEN TRUE
                  ELSE IF Head(a) = Head(b) THEN TextLess(Tail(a), Tail(b))
                  ELSE Code(Head(a)) < Code(Head(b))

\* SQLite's order of two non-NULL values: every INTEGER sorts before every TEXT
SqlLess(a, b) == CASE a.t = "int" /\ b.t = "int" -> a.i < b.i
                   [] a.t = "int" /\ b.t = "text" -> TRUE
                   [] a.t = "text" /\ b.t = "int" -> FALSE
                   [] OTHER -> TextLess(a.s, b.s)

\* ORDER BY order, NULL first
OrderLess(a, b) == IF IsNull(b) THEN FALSE ELSE IF IsNull(a) THEN TRUE ELSE SqlLess(a, b)

\* "col op ?": a comparison with NULL on either side is not true
CompareValues(op, cell, p, param) ==
    CASE op = "="  -> cell = p
      [] op = "!=" -> cell # p
      [] op \in {"<", "<="} -> SqlLess(cell, p) \/ (op = "<=" /\ cell = p)
      [] op \in {">", ">="} -> SqlLess(p, cell) \/ (op = ">=" /\ cell = p)
      [] op = "LIKE" -> LikeMatch(AsText(param), AsText(cell))
      [] OTHER -> FALSE
SqlCompare(op, aff, cell, param) ==
    /\ ~IsNull(cell)
    /\ ~IsNull(param)
    /\ CompareValues(op, cell, ApplyAffinity(aff, param), param)

(***************************************************************************)
(* Schema (_init_schema).                                                   *)
(***************************************************************************)
ALLOWED_TABLES == {"medical_history", "medication", "food_24h"}

\* PRAGMA table_info: the columns of a table, in declaration order (no row for a
\* table the schema does not create)
TableInfo(t) ==
    CASE t = "medical_history" ->
           <<"id", "condition", "diagnosis_date", "severity", "status",
             "created_at", "updated_at">>
      [] t = "medication" ->
           <<"id", "name", "dosage", "time_taken", "condition_id", "status",
             "created_at", "updated_at">>
      [] t = "food_24h" -> <<"id", "name", "notes", "taken_at", "created_at">>
      [] OTHER -> <<>>

Range(sq) == {sq[k] : k \in 1..Len(sq)}
ColumnSet(t) == Range(TableInfo(t))

IntegerColumns == {"id", "created_at", "updated_at", "time_taken", "condition_id", "taken_at"}
ColAffinity(c) == IF c \in IntegerColumns THEN "INTEGER" ELSE "TEXT"

\* columns declared NOT NULL
NotNullColumns(t) ==
    CASE t = "medical_history" -> {"condition", "created_at", "updated_at"}
      [] t = "medication" -> {"name", "created_at", "updated_at"}
      [] t = "food_24h" -> {"name", "taken_at", "created_at"}
      [] OTHER -> {}

\* the characters of every table and column name a caller uses
Spelling ==
    "medical_history" :> <<"m","e","d","i","c","a","l","_","h","i","s","t","o","r","y">> @@
    "medication" :> <<"m","e","d","i","c","a","t","i","o","n">> @@
    "food_24h" :> <<"f","o","o","d","_","2","4","h">> @@
    "id" :> <<"i","d">> @@
    "condition" :> <<"c","o","n","d","i","t","i","o","n">> @@
    "diagnosis_date" :> <<"d","i","a","g","n","o","s","i","s","_","d","a","t","e">> @@
    "severity" :> <<"s","e","v","e","r","i","t","y">> @@
    "status" :> <<"s","t","a","t","u","s">> @@
    "created_at" :> <<"c","r","e","a","t","e","d","_","a","t">> @@
    "updated_at" :> <<"u","p","d","a","t","e","d","_","a","t">> @@
    "name" :> <<"n","a","m","e">> @@
    "dosage" :> <<"d","o","s","a","g","e">> @@
    "time_taken" :> <<"t","i","m","e","_","t","a","k","e","n">> @@
    "condition_id" :> <<"c","o","n","d","i","t","i","o","n","_","i","d">> @@
    "notes" :> <<"n","o","t","e","s">> @@
    "taken_at" :> <<"t","a","k","e","n","_","a","t">> @@
    "user_id" :> <<"u","s","e","r","_","i","d">> @@
    "sqlite_master" :> <<"s","q","l","i","t","e","_","m","a","s","t","e","r">> @@
    "id--" :> <<"i","d","-","-">> @@
    "" :> <<>>

Names == DOMAIN Spelling

(***************************************************************************)
(* Helpers of the Query Builder.                                           *)
(***************************************************************************)
\* mutant: every identifier is quoted as it comes
QuoteIdentAny(ident) == TRUE

\* _quote_ident accepts letters, digits and underscore only
QuoteIdentOk(ident) == IsAlnum(DropUnderscore(Spelling[ident]))

\* mutant: the allow-list check lets every table name through
AllowAnyTable(table) == TRUE

\* _ensure_allowed_table
EnsureAllowedTable(table) == table \in ALLOWED_TABLES

\* mutant: empty values are not refused
ValuesNeverEmpty(values) == FALSE

\* "if not values": the mapping is empty
ValuesEmpty(values) == DOMAIN values = {}

\* mutant: the statement runs without a WHERE
RefusesNever(w) == FALSE

\* "if not where_sql": _build_where compiled the empty text
RefusesWithoutWhere(w) == ~w.sql

\* _validate_columns: the names that are no column of the table
BadColumns(table, cols) == {c \in cols : c \notin ColumnSet(table)}

SupportedOps == {<<"=">>, <<"!", "=">>, <<">">>, <<">", "=">>, <<"<">>, <<"<", "=">>,
                 <<"L", "I", "K", "E">>, <<"I", "N">>}
OpIN == <<"I", "N">>
\* mutant: the operator is looked up as the caller spelt it
NormOpAsGiven(raw) == raw

\* str(val["op"]).strip().upper()
NormOp(raw) == UpperStr(Strip(raw))
\* the operator as it stands in the statement text
OpName(op) == CASE op = <<"=">> -> "="
                [] op = <<"!", "=">> -> "!="
                [] op = <<">">> -> ">"
                [] op = <<">", "=">> -> ">="
                [] op = <<"<">> -> "<"
                [] op = <<"<", "=">> -> "<="
                [] op = <<"L", "I", "K", "E">> -> "LIKE"
                [] OTHER -> "IN"

(***************************************************************************)
(* A where mapping is [given, items]: given = FALSE is None, and items is  *)
(* the mapping's entries in insertion order.  An entry is                  *)
(*   [col, structured, op, value, isList, list]                            *)
(* structured: the value is a mapping holding "op" and "value"; isList:    *)
(* the (inner) value is a list, held in list, else the scalar in value.    *)
(***************************************************************************)
NoneArg == [given |-> FALSE, items |-> <<>>]
Given(items) == [given |-> TRUE, items |-> items]
Lit(col, v) == [col |-> col, structured |-> FALSE, op |-> <<>>, value |-> v,
                isList |-> FALSE, list |-> <<>>]
Cond(col, op, v) == [col |-> col, structured |-> TRUE, op |-> op, value |-> v,
                     isList |-> FALSE, list |-> <<>>]
CondList(col, op, vs) == [col |-> col, structured |-> TRUE, op |-> op, value |-> NullV,
                          isList |-> TRUE, list |-> vs]

\* "not x" of Python for an optional mapping or list
Falsy(arg) == ~arg.given \/ arg.items = <<>>

\* list(val["value"]): a list as it is, a string as its characters
AsList(item) == IF item.isList THEN item.list
                ELSE [k \in 1..Len(item.value.s) |-> TextV(<<item.value.s[k]>>)]

\* what one entry of the where mapping raises in _build_where
ItemError(item) ==
    IF ~QuoteIdentOk(item.col) THEN "invalid_identifier"
    ELSE IF ~item.structured THEN ""
    ELSE IF NormOp(item.op) \notin SupportedOps THEN "unsupported_operator"
    ELSE IF NormOp(item.op) = OpIN /\ ~item.isList /\ item.value.t # "text"
         THEN "not_iterable"
    ELSE ""

\* mutant: an empty IN list compiles to "col IN ()", which names the column
ClauseNamesColumn(item) ==
    IF item.structured /\ NormOp(item.op) = OpIN
    THEN [kind |-> "in", col |-> item.col, op |-> "IN", param |-> NullV,
          params |-> AsList(item), bindable |-> TRUE]
    ELSE [kind |-> "cmp", col |-> item.col,
          op |-> IF item.structured THEN OpName(NormOp(item.op)) ELSE "=",
          param |-> item.value, params |-> <<>>, bindable |-> ~item.isList]

\* the clause one entry compiles to
Clause(item) ==
    IF item.structured /\ NormOp(item.op) = OpIN
    THEN IF AsList(item) = <<>>
         THEN [kind |-> "false", col |-> item.col, op |-> "IN", param |-> NullV,
               params |-> <<>>, bindable |-> TRUE]
         ELSE [kind |-> "in", col |-> item.col, op |-> "IN", param |-> NullV,
               params |-> AsList(item), bindable |-> TRUE]
    ELSE [kind |-> "cmp", col |-> item.col,
          op |-> IF item.structured THEN OpName(NormOp(item.op)) ELSE "=",
          param |-> item.value, params |-> <<>>, bindable |-> ~item.isList]

Min(S) == CHOOSE x \in S : \A y \in S : x <= y
Max(S) == CHOOSE x \in S : \A y \in S : y <= x

\* what _build_where raises at an entry
Failure(item) ==
    [err |-> ItemError(item), badCol |-> item.col,
     badOp |-> IF ItemError(item) = "unsupported_operator" THEN NormOp(item.op) ELSE <<>>,
     sql |-> FALSE, clauses |-> <<>>]

\* the entries that raise
Failing(items) == {k \in 1..Len(items) : ItemError(items[k]) # ""}

\* _build_where: the first entry that raises decides; sql = FALSE is the empty text
BuildWhere(where) ==
    IF Falsy(where)
    THEN [err |-> "", badCol |-> "", badOp |-> <<>>, sql |-> FALSE, clauses |-> <<>>]
    ELSE IF Failing(where.items) # {}
    THEN Failure(where.items[Min(Failing(where.items))])
    ELSE [err |-> "", badCol |-> "", badOp |-> <<>>, sql |-> TRUE,
          clauses |-> [k \in 1..Len(where.items) |-> Clause(where.items[k])]]

(***************************************************************************)
(* SQLite's side of a statement with a WHERE text.                         *)
(***************************************************************************)
\* preparing fails on a column the table lacks, binding on a list or mapping
WhereExecError(table, clauses) ==
    IF \E k \in 1..Len(clauses) :
          clauses[k].kind # "false" /\ clauses[k].col \notin ColumnSet(table)
    THEN "no_such_column"
    ELSE IF \E k \in 1..Len(clauses) : ~clauses[k].bindable THEN "bind_error"
    ELSE ""

ClauseHolds(row, cl) ==
    CASE cl.kind = "false" -> FALSE
      [] cl.kind = "in" -> \E k \in 1..Len(cl.params) :
                              SqlCompare("=", ColAffinity(cl.col), row[cl.col], cl.params[k])
      [] OTHER -> SqlCompare(cl.op, ColAffinity(cl.col), row[cl.col], cl.param)

\* the rows of a table the conjunction of the clauses selects
Matching(rows, clauses) ==
    {r \in rows : \A k \in 1..Len(clauses) : ClauseHolds(r, clauses[k])}

(***************************************************************************)
(* Retention Sweeper (_purge_expired).                                     *)
(***************************************************************************)
Day == 24 * 3600
TwoWeeks == 14 * 24 * 3600
RecoveredPattern == <<"r", "e", "c", "o", "v", "e", "r", "e", "d", "%">>

\* mutant: a recovered row is purged only once it is older than 14 days
PurgeMedicalStrict(rows, clock) ==
    {r \in rows :
        ~(SqlCompare("LIKE", "TEXT", r["status"], TextV(RecoveredPattern))
          /\ SqlCompare("<", "INTEGER", r["updated_at"], IntV(clock - TwoWeeks)))}

\* DELETE FROM medical_history WHERE status LIKE 'recovered%' AND updated_at <= ?
PurgeMedicalHistory(rows, clock) ==
    {r \in rows :
        ~(SqlCompare("LIKE", "TEXT", r["status"], TextV(RecoveredPattern))
          /\ SqlCompare("<=", "INTEGER", r["updated_at"], IntV(clock - TwoWeeks)))}

\* mutant: a food row is purged from the boundary on
PurgeFoodInclusive(rows, clock) ==
    {r \in rows : ~SqlCompare("<=", "INTEGER", r["taken_at"], IntV(clock - Day))}

\* DELETE FROM food_24h WHERE taken_at < ?
PurgeFood(rows, clock) ==
    {r \in rows : ~SqlCompare("<", "INTEGER", r["taken_at"], IntV(clock - Day))}

\* mutant: the foreign key cascades the delete
OnDeleteCascade(meds, removedIds) == {r \in meds : r["condition_id"] \notin removedIds}

\* What deleting medical_history rows does to medication.  The schema declares
\* ON DELETE SET NULL, and the connection is opened without PRAGMA foreign_keys,
\* so SQLite enforces no foreign key: the medication rows stay as they are.
OnDeleteParent(meds, removedIds) == meds

Ids(rows) == {r["id"] : r \in rows}

\* the store after DELETE has left `kept` of the table's rows
DeleteFrom(d, table, kept) ==
    IF table = "medical_history"
    THEN [d EXCEPT !["medical_history"] = kept,
                   !["medication"] = OnDeleteParent(@, Ids(d["medical_history"] \ kept))]
    ELSE [d EXCEPT ![table] = kept]

\* DELETE FROM medical_history, the first statement of _purge_expired
PurgeMedicalStep(d, clock) ==
    DeleteFrom(d, "medical_history", PurgeMedicalHistory(d["medical_history"], clock))

\* the food DELETE as it would be if each run removed one expired row only,
\* the one of least id
PurgeFoodOneRow(d, clock) ==
    [d EXCEPT !["food_24h"] =
        {r \in @ : \/ r \in PurgeFood(@, clock)
                   \/ \E x \in @ \ PurgeFood(@, clock) : x["id"].i < r["id"].i}]

\* DELETE FROM food_24h, the second statement of _purge_expired
PurgeFoodStep(d, clock) ==
    DeleteFrom(d, "food_24h", PurgeFood(d["food_24h"], clock))

\* _purge_expired: the two statements in their order
PurgeExpired(d, clock) == PurgeFoodStep(PurgeMedicalStep(d, clock), clock)

PurgeStmts == <<"DELETE medical_history", "DELETE food_24h">>

\* mutant: no purge at a tool call in either server
TouchPurgeNever(d, clock, eagerMode) == [db |-> d, stmts |-> <<>>]

\* mutant: the start-up-only server purges at every tool call too
TouchPurgeAlways(d, clock, eagerMode) ==
    [db |-> PurgeExpired(d, clock), stmts |-> PurgeStmts]

\* _touch_purge: src/userdb.py purges at every tool call (eager), its twin
\* src/agents/userdb.py at start-up only
TouchPurge(d, clock, eagerMode) ==
    IF eagerMode THEN [db |-> PurgeExpired(d, clock), stmts |-> PurgeStmts]
    ELSE [db |-> d, stmts |-> <<>>]

(***************************************************************************)
(* Outcome of a tool call: the store it leaves, what it raised (err = ""   *)
(* when it returned), the statements it handed to SQLite, and its result.  *)
(***************************************************************************)
Raise(d, sq, stmts, err, bad, badOp) ==
    [db |-> d, seq |-> sq, stmts |-> stmts, err |-> err, bad |-> bad, badOp |-> badOp,
     rows |-> <<>>, rowCount |-> 0, nextOffset |-> NullV, lastRowId |-> NullV]

Return(d, sq, stmts, rows, rowCount, nextOffset, lastRowId) ==
    [db |-> d, seq |-> sq, stmts |-> stmts, err |-> "", bad |-> {}, badOp |-> <<>>,
     rows |-> rows, rowCount |-> rowCount, nextOffset |-> nextOffset,
     lastRowId |-> lastRowId]

(***************************************************************************)
(* table_query                                                             *)
(***************************************************************************)
\* ORDER BY: lexicographic in the listed columns
RECURSIVE KeyLess(_, _, _)
KeyLess(a, b, cols) ==
    IF cols = <<>> THEN FALSE
    ELSE IF OrderLess(a[Head(cols)], b[Head(cols)]) THEN TRUE
    ELSE IF OrderLess(b[Head(cols)], a[Head(cols)]) THEN FALSE
    ELSE KeyLess(a, b, Tail(cols))

\* the orders SQLite may return the selected rows in: sorted by the ORDER BY
\* columns, unspecified among ties and without ORDER BY
ResultOrders(rows, cols) ==
    {sq \in [1..Cardinality(rows) -> rows] :
        /\ \A i, j \in 1..Cardinality(rows) : i # j => sq[i] # sq[j]
        /\ \A i, j \in 1..Cardinality(rows) : i < j => ~KeyLess(sq[j], sq[i], cols)}

\* mutant: the OFFSET is ignored
PageFromStart(sq, limit, offset) ==
    IF limit < 0 \/ limit > Len(sq) THEN sq ELSE SubSeq(sq, 1, limit)

\* LIMIT ? OFFSET ?: a negative LIMIT is no limit, a negative OFFSET is 0
Page(sq, limit, offset) ==
    LET off == IF offset < 0 THEN 0 ELSE offset
        hi == IF limit < 0 \/ off + limit > Len(sq) THEN Len(sq) ELSE off + limit
    IN  IF off + 1 > hi THEN <<>> ELSE SubSeq(sq, off + 1, hi)

\* SELECT cols: every column for "*"
Project(row, columns) ==
    IF Falsy(columns) THEN row ELSE [c \in Range(columns.items) |-> row[c]]

\* mutant: the next offset is the offset of the call
NextOffsetSame(limit, offset, total) ==
    IF offset + limit < total THEN IntV(offset) ELSE NullV

\* next_offset = offset + limit if offset + limit < total else None
NextOffset(limit, offset, total) ==
    IF offset + limit < total THEN IntV(offset + limit) ELSE NullV

\* mutant: the count ignores the predicate
CountAll(rows, clauses) == Cardinality(rows)

\* SELECT COUNT(*) ... WHERE: the rows the predicate selects
CountRows(rows, clauses) == Cardinality(Matching(rows, clauses))

\* table_query once _touch_purge has left p and _build_where is to give w: every
\* outcome the call can have
QueryAfterPurge(p, w, sq, table, columns, order_by, limit, offset) ==
    LET st1 == IF Falsy(columns) THEN p.stmts ELSE Append(p.stmts, "PRAGMA")
        st2 == IF Falsy(order_by) THEN st1 ELSE Append(st1, "PRAGMA")
    IN
    IF ~EnsureAllowedTable(table)
    THEN {Raise(p.db, sq, p.stmts, "unknown_table", {table}, <<>>)}
    ELSE IF ~Falsy(columns) /\ BadColumns(table, Range(columns.items)) # {}
    THEN {Raise(p.db, sq, st1, "invalid_column",
                BadColumns(table, Range(columns.items)), <<>>)}
    ELSE IF ~Falsy(order_by) /\ BadColumns(table, Range(order_by.items)) # {}
    THEN {Raise(p.db, sq, st2, "invalid_column",
                BadColumns(table, Range(order_by.items)), <<>>)}
    ELSE IF w.err # ""
    THEN {Raise(p.db, sq, st2, w.err, {w.badCol}, w.badOp)}
    ELSE IF WhereExecError(table, w.clauses) # ""
    THEN {Raise(p.db, sq, Append(st2, "SELECT"), WhereExecError(table, w.clauses),
                {}, <<>>)}
    ELSE {Return(p.db, sq, st2 \o <<"SELECT", "SELECT COUNT">>,
                 [k \in 1..Len(Page(ord, limit, offset)) |->
                     Project(Page(ord, limit, offset)[k], columns)],
                 total, NextOffset(limit, offset, total), NullV) :
          ord \in ResultOrders(Matching(p.db[table], w.clauses),
                               IF Falsy(order_by) THEN <<>> ELSE order_by.items),
          total \in {CountRows(p.db[table], w.clauses)}}

TableQuery(d, sq, clock, eagerMode, table, columns, where, order_by, limit, offset) ==
    QueryAfterPurge(TouchPurge(d, clock, eagerMode), BuildWhere(where), sq, table,
                    columns, order_by, limit, offset)

(***************************************************************************)
(* table_insert                                                            *)
(***************************************************************************)
\* mutant: created_at is stamped over the value the caller gave
InsertStampsCreated(table, values, clock) ==
    LET v1 == IF "created_at" \in ColumnSet(table)
              THEN ("created_at" :> IntV(clock)) @@ values ELSE values
    IN  IF "updated_at" \in ColumnSet(table) /\ "updated_at" \notin DOMAIN v1
        THEN v1 @@ ("updated_at" :> IntV(clock)) ELSE v1

\* mutant: updated_at is stamped over the value the caller gave
InsertStampsOverwrite(table, values, clock) ==
    LET v1 == IF "created_at" \in ColumnSet(table) /\ "created_at" \notin DOMAIN values
              THEN values @@ ("created_at" :> IntV(clock)) ELSE values
    IN  IF "updated_at" \in ColumnSet(table)
        THEN ("updated_at" :> IntV(clock)) @@ v1 ELSE v1

\* the auto timestamps: created_at, updated_at = now where the table has the
\* column and the caller gave none
InsertStamps(table, values, clock) ==
    LET v1 == IF "created_at" \in ColumnSet(table) /\ "created_at" \notin DOMAIN values
              THEN values @@ ("created_at" :> IntV(clock)) ELSE values
    IN  IF "updated_at" \in ColumnSet(table) /\ "updated_at" \notin DOMAIN v1
        THEN v1 @@ ("updated_at" :> IntV(clock)) ELSE v1

\* the row INSERT stores for the bound values: affinity applied, NULL elsewhere
StoredRow(table, vals) ==
    [c \in ColumnSet(table) |->
        IF c \in DOMAIN vals THEN ApplyAffinity(ColAffinity(c), vals[c]) ELSE NullV]

\* INTEGER PRIMARY KEY AUTOINCREMENT: one more than the largest id the table
\* ever held (sqlite_sequence) and holds
AutoId(rows, seqT) == Max({seqT} \cup {r["id"].i : r \in rows}) + 1

\* what SQLite's constraints say of an INSERT of the row `stored`
InsertViolation(rows, table, stored) ==
    \/ stored["id"].t = "text"
    \/ stored["id"].t = "int" /\ stored["id"] \in Ids(rows)
    \/ \E c \in NotNullColumns(table) : IsNull(stored[c])

\* the id of the stored row: the one given, else the next AUTOINCREMENT id
NewId(rows, seqT, stored) ==
    IF IsNull(stored["id"]) THEN AutoId(rows, seqT) ELSE stored["id"].i

\* INSERT INTO table (cols) VALUES (?, ...) with the bound values vals
InsertRow(p, sq, st, table, vals, stored, newId) ==
    IF BadColumns(table, DOMAIN vals) # {}
    THEN Raise(p.db, sq, st, "invalid_column", BadColumns(table, DOMAIN vals), <<>>)
    ELSE IF InsertViolation(p.db[table], table, stored)
    THEN Raise(p.db, sq, Append(st, "INSERT"), "integrity_error", {}, <<>>)
    ELSE Return([p.db EXCEPT ![table] = @ \cup {[stored EXCEPT !["id"] = IntV(newId)]}],
                [sq EXCEPT ![table] = IF newId > @ THEN newId ELSE @],
                Append(st, "INSERT"), <<>>, 1, NullV, IntV(newId))

\* table_insert once the auto timestamps have made vals of values
InsertValues(p, sq, table, vals) ==
    InsertRow(p, sq, p.stmts \o <<"PRAGMA", "PRAGMA">>, table, vals,
              StoredRow(table, vals),
              NewId(p.db[table], sq[table], StoredRow(table, vals)))

\* table_insert once _touch_purge has left p
InsertAfterPurge(p, sq, clock, table, values) ==
    IF ~EnsureAllowedTable(table)
    THEN Raise(p.db, sq, p.stmts, "unknown_table", {table}, <<>>)
    ELSE IF ValuesEmpty(values)
    THEN Raise(p.db, sq, p.stmts, "values_empty", {}, <<>>)
    ELSE InsertValues(p, sq, table, InsertStamps(table, values, clock))

TableInsert(d, sq, clock, eagerMode, table, values) ==
    InsertAfterPurge(TouchPurge(d, clock, eagerMode), sq, clock, table, values)

(***************************************************************************)
(* table_update                                                            *)
(***************************************************************************)
\* the auto timestamp as it would be if the call-time clock always replaced the
\* caller's updated_at
UpdateStampsAlways(table, values, clock) ==
    IF "updated_at" \in ColumnSet(table)
    THEN ("updated_at" :> IntV(clock)) @@ values ELSE values

\* mutant: an update leaves updated_at as it was unless the caller gives one
UpdateStampsNever(table, values, clock) == values

\* vals.setdefault("updated_at", now) where the table has the column
UpdateStamps(table, values, clock) ==
    IF "updated_at" \in ColumnSet(table) /\ "updated_at" \notin DOMAIN values
    THEN values @@ ("updated_at" :> IntV(clock)) ELSE values

\* the row UPDATE ... SET makes of a selected row
UpdatedRow(table, row, vals) ==
    [c \in ColumnSet(table) |->
        IF c \in DOMAIN vals THEN ApplyAffinity(ColAffinity(c), vals[c]) ELSE row[c]]

\* what SQLite's constraints say of an UPDATE of the rows `hit`
UpdateViolation(rows, hit, table, vals) ==
    /\ hit # {}
    /\ \/ \E c \in NotNullColumns(table) \cap DOMAIN vals : IsNull(vals[c])
       \/ /\ "id" \in DOMAIN vals
          /\ LET nid == ApplyAffinity("INTEGER", vals["id"]) IN
             \/ nid.t # "int"
             \/ Cardinality(hit) > 1
             \/ nid \in Ids(rows \ hit)

\* UPDATE table SET ... WHERE ...: hit are the rows the WHERE selects, st the
\* statements up to and including this one
UpdateRows(p, sq, st, table, vals, hit) ==
    IF UpdateViolation(p.db[table], hit, table, vals)
    THEN Raise(p.db, sq, st, "integrity_error", {}, <<>>)
    ELSE Return([p.db EXCEPT ![table] =
                     (@ \ hit) \cup {UpdatedRow(table, r, vals) : r \in hit}],
                sq, st, <<>>, Cardinality(hit), NullV, NullV)

\* table_update once the auto timestamp has made vals of values
UpdateValues(p, w, sq, st, table, vals) ==
    IF BadColumns(table, DOMAIN vals) # {}
    THEN Raise(p.db, sq, st, "invalid_column", BadColumns(table, DOMAIN vals), <<>>)
    ELSE IF w.err # ""
    THEN Raise(p.db, sq, st, w.err, {w.badCol}, w.badOp)
    ELSE IF RefusesWithoutWhere(w)
    THEN Raise(p.db, sq, st, "no_where", {}, <<>>)
    ELSE IF WhereExecError(table, w.clauses) # ""
    THEN Raise(p.db, sq, Append(st, "UPDATE"), WhereExecError(table, w.clauses), {}, <<>>)
    ELSE UpdateRows(p, sq, Append(st, "UPDATE"), table, vals,
                    Matching(p.db[table], w.clauses))

\* table_update once _touch_purge has left p and _build_where is to give w
UpdateAfterPurge(p, w, sq, clock, table, values) ==
    IF ~EnsureAllowedTable(table)
    THEN Raise(p.db, sq, p.stmts, "unknown_table", {table}, <<>>)
    ELSE IF ValuesEmpty(values)
    THEN Raise(p.db, sq, p.stmts, "values_empty", {}, <<>>)
    ELSE UpdateValues(p, w, sq, p.stmts \o <<"PRAGMA", "PRAGMA">>, table,
                      UpdateStamps(table, values, clock))

TableUpdate(d, sq, clock, eagerMode, table, values, where) ==
    UpdateAfterPurge(TouchPurge(d, clock, eagerMode), BuildWhere(where), sq, clock,
                     table, values)

(***************************************************************************)
(* table_delete                                                            *)
(***************************************************************************)
\* DELETE FROM table WHERE ...: hit are the rows the WHERE selects
DeleteRows(p, sq, table, hit) ==
    Return(DeleteFrom(p.db, table, p.db[table] \ hit), sq,
           Append(p.stmts, "DELETE"), <<>>, Cardinality(hit), NullV, NullV)

\* table_delete once _touch_purge has left p and _build_where has given w
DeleteAfterPurge(p, w, sq, table) ==
    IF ~EnsureAllowedTable(table)
    THEN Raise(p.db, sq, p.stmts, "unknown_table", {table}, <<>>)
    ELSE IF w.err # ""
    THEN Raise(p.db, sq, p.stmts, w.err, {w.badCol}, w.badOp)
    ELSE IF RefusesWithoutWhere(w)
    THEN Raise(p.db, sq, p.stmts, "no_where", {}, <<>>)
    ELSE IF WhereExecError(table, w.clauses) # ""
    THEN Raise(p.db, sq, Append(p.stmts, "DELETE"),
               WhereExecError(table, w.clauses), {}, <<>>)
    ELSE DeleteRows(p, sq, table, Matching(p.db[table], w.clauses))

TableDelete(d, sq, clock, eagerMode, table, where) ==
    DeleteAfterPurge(TouchPurge(d, clock, eagerMode), BuildWhere(where), sq, table)

(***************************************************************************)
(* State.                                                                  *)
(***************************************************************************)
VARIABLES
    now,      \* the wall clock, in epoch seconds (_now_ts)
    eager,    \* TRUE: src/userdb.py (purge at every tool call);
              \* FALSE: src/agents/userdb.py (purge at start-up only)
    db,       \* the rows of each table of health.db
    seq,      \* sqlite_sequence: the largest id each table was ever given
    last      \* the last tool call: its arguments and its outcome

vars == <<now, eager, db, seq, last>>

\* bounds of the model
T0 == 2000000
MaxRows == 1
MaxTicks == 1
\* ids the tables hand out before the model stops inserting
MaxId == MaxRows + 1

NoValues == <<>>

\* what a query keeps of the call made directly before it, a successful insert
NoAfter == [op |-> "", table |-> "", values |-> NoValues, clock |-> 0,
            err |-> "", lastRowId |-> NullV]
After(l) == IF l.op = "insert" /\ l.err = ""
            THEN [op |-> l.op, table |-> l.table, values |-> l.values,
                  clock |-> l.clock, err |-> l.err, lastRowId |-> l.lastRowId]
            ELSE NoAfter

TotalRows(d) == Cardinality(d["medical_history"]) + Cardinality(d["medication"])
                + Cardinality(d["food_24h"])

\* the rows the purge at the start of a tool call deletes
Purged(d, clock, eagerMode) == TotalRows(d) - TotalRows(TouchPurge(d, clock, eagerMode).db)

CallRecord(op, table, values, where, columns, order_by, limit, offset, clock, after,
           purged, o) ==
    [op |-> op, table |-> table, values |-> values, where |-> where,
     columns |-> columns, order_by |-> order_by, limit |-> limit, offset |-> offset,
     clock |-> clock, after |-> after, purged |-> purged, stmts |-> o.stmts,
     err |-> o.err, bad |-> o.bad, badOp |-> o.badOp, rows |-> o.rows,
     rowCount |-> o.rowCount, nextOffset |-> o.nextOffset, lastRowId |-> o.lastRowId]

\* a step that is no tool call
NoCall(op, clock, stmts, purged) ==
    [op |-> op, table |-> "", values |-> NoValues, where |-> NoneArg,
     columns |-> NoneArg, order_by |-> NoneArg, limit |-> 0, offset |-> 0,
     clock |-> clock, after |-> NoAfter, purged |-> purged, stmts |-> stmts,
     err |-> "", bad |-> {}, badOp |-> <<>>, rows |-> <<>>, rowCount |-> 0,
     nextOffset |-> NullV, lastRowId |-> NullV]

\* the part of the store the bounds let the model reach: at most cap rows, and
\* one id more than that handed out
InBounds(d, sq, cap) ==
    /\ TotalRows(d) <= cap
    /\ sq["medical_history"] + sq["medication"] + sq["food_24h"] <= cap + 1

\* the steps of the clock taken to reach it (fewer than 14 of them of a day)
TicksTaken(clock) ==
    ((clock - T0) \div TwoWeeks) + (((clock - T0) % TwoWeeks) \div Day)

\* lifespan on a fresh health.db: the schema is created and the purge finds nothing
Init ==
    /\ now = T0
    /\ eager \in BOOLEAN
    /\ db = [t \in ALLOWED_TABLES |-> {}]
    /\ seq = [t \in ALLOWED_TABLES |-> 0]
    /\ last = NoCall("lifespan", T0, PurgeStmts, 0)

\* the server is started again on the existing health.db: lifespan purges once
Lifespan ==
    /\ db' = PurgeExpired(db, now)
    /\ last' = NoCall("lifespan", now, PurgeStmts,
                       TotalRows(db) - TotalRows(PurgeExpired(db, now)))
    /\ UNCHANGED <<now, eager, seq>>

\* time passes between two calls
Tick(step) ==
    /\ TicksTaken(now + step) <= MaxTicks
    /\ now' = now + step
    /\ last' = NoCall("tick", now + step, <<>>, 0)
    /\ UNCHANGED <<eager, db, seq>>

Query(table, columns, where, order_by, limit, offset) ==
    \E o \in TableQuery(db, seq, now, eager, table, columns, where, order_by, limit, offset) :
        /\ db' = o.db
        /\ seq' = o.seq
        /\ last' = CallRecord("query", table, NoValues, where, columns, order_by,
                              limit, offset, now, After(last),
                              Purged(db, now, eager), o)
        /\ UNCHANGED <<now, eager>>

\* an insert the bounds admit: it leaves at most cap rows
InsertUpTo(cap, table, values) ==
    \E o \in {TableInsert(db, seq, now, eager, table, values)} :
        /\ InBounds(o.db, o.seq, cap)
        /\ db' = o.db
        /\ seq' = o.seq
        /\ last' = CallRecord("insert", table, values, NoneArg, NoneArg, NoneArg,
                              0, 0, now, NoAfter, Purged(db, now, eager), o)
        /\ UNCHANGED <<now, eager>>

Insert(table, values) == InsertUpTo(MaxRows, table, values)

Update(table, values, where) ==
    \E o \in {TableUpdate(db, seq, now, eager, table, values, where)} :
        /\ db' = o.db
        /\ seq' = o.seq
        /\ last' = CallRecord("update", table, values, where, NoneArg, NoneArg,
                              0, 0, now, NoAfter, Purged(db, now, eager), o)
        /\ UNCHANGED <<now, eager>>

Delete(table, where) ==
    \E o \in {TableDelete(db, seq, now, eager, table, where)} :
        /\ db' = o.db
        /\ seq' = o.seq
        /\ last' = CallRecord("delete", table, NoValues, where, NoneArg, NoneArg,
                              0, 0, now, NoAfter, Purged(db, now, eager), o)
        /\ UNCHANGED <<now, eager>>

(***************************************************************************)
(* The calls the callers of the model make.                                *)
(***************************************************************************)
Flu == TextV(<<"f", "l", "u">>)
Tea == TextV(<<"t", "e", "a">>)
Asp == TextV(<<"a", "s", "p">>)
Note == TextV(<<"h", "o", "t">>)
Active == TextV(<<"a", "c", "t", "i", "v", "e">>)
Recovered == TextV(<<"r", "e", "c", "o", "v", "e", "r", "e", "d">>)
RecoveredUpper == TextV(<<"R", "e", "c", "o", "v", "e", "r", "e", "d">>)
Unrecovered == TextV(<<"u", "n", "r", "e", "c", "o", "v", "e", "r", "e", "d">>)

ById(k) == Given(<<Lit("id", IntV(k))>>)
EmptyArg == Given(<<>>)
BadOpWhere == Given(<<Cond("id", <<"=", "=">>, IntV(1))>>)
BadIdentWhere == Given(<<Lit("id--", IntV(1))>>)
NoColumnWhere == Given(<<Lit("user_id", IntV(1))>>)

FreshFood(clock) == ("name" :> Tea) @@ ("taken_at" :> IntV(clock))
StaleFood(clock) == ("name" :> Tea) @@ ("taken_at" :> IntV(clock - Day - 1))
ActiveCondition == ("condition" :> Flu) @@ ("status" :> Active)
StaleCondition(clock) == ("condition" :> Flu) @@ ("status" :> Recovered)
                         @@ ("updated_at" :> IntV(clock - TwoWeeks))

\* <<table, values>>
InsertInputs(clock) ==
    { <<"food_24h", FreshFood(clock)>>,
      <<"food_24h", StaleFood(clock)>>,
      <<"food_24h", ("name" :> IntV(7)) @@ ("taken_at" :> IntV(clock))>>,
      <<"food_24h", ("name" :> Tea)>>,
      <<"food_24h", NoValues>>,
      <<"medical_history", ActiveCondition>>,
      <<"medical_history", StaleCondition(clock)>>,
      <<"medical_history", ("condition" :> Flu) @@ ("user_id" :> IntV(1))>>,
      <<"medication", ("name" :> Asp) @@ ("condition_id" :> IntV(1))>>,
      <<"sqlite_master", ("name" :> Tea)>> }

\* <<table, values, where>>
UpdateInputs ==
    { <<t, v, w>> : t \in {"food_24h", "medical_history"},
                    v \in {NoValues, ("name" :> Tea), ("user_id" :> IntV(1))},
                    w \in {NoneArg, EmptyArg} }
    \cup
    { <<"medical_history", ("status" :> Recovered), ById(1)>>,
      <<"medical_history", NoValues, ById(1)>>,
      <<"food_24h", ("notes" :> Note), ById(1)>>,
      <<"food_24h", ("notes" :> Note), BadOpWhere>>,
      <<"food_24h", ("notes" :> Note), NoColumnWhere>>,
      <<"sqlite_master", ("name" :> Tea), ById(1)>> }

\* <<table, where>>
DeleteInputs ==
    { <<t, w>> : t \in ALLOWED_TABLES, w \in {NoneArg, EmptyArg, ById(1)} }
    \cup
    { <<"sqlite_master", ById(1)>>,
      <<"food_24h", BadOpWhere>>,
      <<"medication", BadIdentWhere>>,
      <<"medical_history", NoColumnWhere>> }

\* <<table, columns, where, order_by, limit, offset>>
QueryInputs ==
    { <<t, NoneArg, ById(k), NoneArg, 100, 0>> : t \in ALLOWED_TABLES, k \in 1..MaxId }
    \cup
    { <<"sqlite_master", NoneArg, ById(1), NoneArg, 100, 0>>,
      <<"medication", Given(<<"name", "taken_at">>), NoneArg, NoneArg, 100, 0>>,
      <<"medication", NoneArg, NoneArg, Given(<<"user_id">>), 100, 0>>,
      <<"medical_history", NoneArg, Given(<<Cond("status", <<"~">>, Recovered)>>),
        NoneArg, 100, 0>>,
      <<"medical_history", NoneArg, BadIdentWhere, NoneArg, 100, 0>>,
      <<"medical_history", NoneArg, NoColumnWhere, NoneArg, 100, 0>>,
      <<"medical_history", Given(<<"id", "status">>),
        Given(<<Cond("status", <<" ", "l", "i", "k", "e">>, TextV(RecoveredPattern))>>),
        Given(<<"updated_at">>), 100, 0>> }

Next ==
    \/ Lifespan
    \/ \E c \in QueryInputs : Query(c[1], c[2], c[3], c[4], c[5], c[6])
    \/ \E c \in InsertInputs(now) : Insert(c[1], c[2])
    \/ \E c \in UpdateInputs : Update(c[1], c[2], c[3])
    \/ \E c \in DeleteInputs : Delete(c[1], c[2])

Spec == Init /\ [][Next]_vars


(***************************************************************************)
(* Properties of the Query Builder's guards, checked under Spec.           *)
(***************************************************************************)
IsToolCall(l) == l.op \in {"query", "insert", "update", "delete"}

\* what the sweep at the start of a tool call leaves of the store
AfterTouch(d) == IF eager THEN PurgeExpired(d, now) ELSE d

NoWhereCall(l) ==
    l.op \in {"update", "delete"} /\ l.table \in ALLOWED_TABLES /\ Falsy(l.where)

\* C1 as claimed: update and delete with where absent, null or {} fail with the
\* policy error, and the call updates or deletes no row of the target table.
C1_Claimed ==
    [][NoWhereCall(last') =>
          last'.err = "no_where" /\ db'[last'.table] = db[last'.table]]_vars

\* C1 as amended: such a call always fails and never hands its UPDATE or DELETE
\* to SQLite; delete fails with the policy error, update with the error of the
\* first check that fails (empty values, then unknown column, then the policy
\* error); the store it leaves is the one the sweep at the start of the call
\* leaves (the store as it was where the server purges at start-up only).
C1_NoWhereRefused ==
    [][NoWhereCall(last') =>
          /\ last'.err = (IF last'.op = "update" /\ DOMAIN last'.values = {}
                          THEN "values_empty"
                          ELSE IF last'.op = "update"
                                  /\ ~(DOMAIN last'.values \subseteq ColumnSet(last'.table))
                          THEN "invalid_column"
                          ELSE "no_where")
          /\ "UPDATE" \notin Range(last'.stmts)
          /\ "DELETE" \notin Range(last'.stmts)
          /\ db' = AfterTouch(db)
          /\ seq' = seq]_vars

\* a delete with where = {} on a table holding a row was refused
C1_Witness ==
    /\ last.op = "delete" /\ last.where = EmptyArg /\ last.err = "no_where"
    /\ last.table \in ALLOWED_TABLES /\ db[last.table] # {}

UnknownTableCall(l) == IsToolCall(l) /\ l.table \notin ALLOWED_TABLES

\* C2 as claimed, in what it says of the rows: on a table outside the allow-list
\* every operation fails with a schema error and no row of any table changes
\* during the call.
C2_Claimed ==
    [][UnknownTableCall(last') => last'.err = "unknown_table" /\ db' = db]_vars

\* C2 as amended: every operation on such a table fails with the schema error;
\* the only statements it executes are the sweep's two DELETEs that src/userdb.py
\* runs at the start of every tool call (none where the server purges at start-up
\* only), and the store it leaves is the one that sweep leaves.
C2_UnknownTableRefused ==
    [][UnknownTableCall(last') =>
          /\ last'.err = "unknown_table"
          /\ last'.stmts = (IF eager THEN PurgeStmts ELSE <<>>)
          /\ db' = AfterTouch(db)
          /\ seq' = seq]_vars

\* an update of a table outside the allow-list was refused while the store held a row
C2_Witness ==
    /\ last.op = "update" /\ last.table = "sqlite_master"
    /\ last.err = "unknown_table" /\ TotalRows(db) > 0

EmptyValuesCall(l) ==
    l.op \in {"insert", "update"} /\ l.table \in ALLOWED_TABLES /\ DOMAIN l.values = {}

\* C3 as claimed, in what it says of the store: insert and update with values = {}
\* fail with a validation error and the store is identical before and after.
C3_Claimed ==
    [][EmptyValuesCall(last') => last'.err = "values_empty" /\ db' = db]_vars

\* C3 as amended: they fail with the validation error before the call reads the
\* schema or writes; the only statements executed are the sweep's two DELETEs at
\* the start of the call in src/userdb.py, and the store is the one it leaves.
C3_EmptyValuesRefused ==
    [][EmptyValuesCall(last') =>
          /\ last'.err = "values_empty"
          /\ last'.stmts = (IF eager THEN PurgeStmts ELSE <<>>)
          /\ db' = AfterTouch(db)
          /\ seq' = seq]_vars

\* an update with values = {} and a where that selects a stored row was refused
C3_Witness ==
    /\ last.op = "update" /\ last.values = NoValues /\ last.where = ById(1)
    /\ last.err = "values_empty"
    /\ \E r \in db[last.table] : r["id"] = IntV(1)

ValidationErrors == {"unknown_table", "values_empty", "invalid_column",
                     "invalid_identifier", "unsupported_operator", "no_where"}

\* C4 as claimed: after a call that ends in a validation failure the three tables
\* hold exactly what they held before the call.
C4_Claimed ==
    [][(IsToolCall(last') /\ last'.err \in ValidationErrors) => db' = db]_vars

\* C4 as amended: after such a call the three tables hold exactly what the sweep
\* at the start of the call leaves: what they held before, less the rows the
\* retention rules make eligible at that time in src/userdb.py, and exactly what
\* they held before in src/agents/userdb.py; the call's own statement writes nothing.
C4_FailureWritesNothing ==
    [][(IsToolCall(last') /\ last'.err \in ValidationErrors) =>
          /\ db' = AfterTouch(db)
          /\ seq' = seq
          /\ \A k \in 1..Len(last'.stmts) :
                last'.stmts[k] \notin {"INSERT", "UPDATE", "DELETE"}]_vars

\* a failed call left a purge-eligible row where it was
C4_Witness ==
    /\ IsToolCall(last) /\ last.err \in ValidationErrors
    /\ ~eager
    /\ PurgeExpired(db, now) # db

\* the literal prefix "recovered", as LIKE 'recovered%' reads it
LikeRecovered(v) ==
    /\ v.t = "text"
    /\ Len(v.s) >= 9
    /\ \A k \in 1..9 : Lower(v.s[k]) = RecoveredPattern[k]

\* the inserted row is one the retention rules make eligible at time clock
StaleEligible(table, row, clock) ==
    \/ table = "food_24h" /\ row["taken_at"].i < clock - 86400
    \/ table = "medical_history" /\ LikeRecovered(row["status"])
                                 /\ row["updated_at"].i <= clock - 1209600

\* the query is the round trip of the successful insert made directly before it
RoundTrip(l) ==
    /\ l.op = "query" /\ l.after.op = "insert"
    /\ l.table = l.after.table
    /\ l.where = ById(l.after.lastRowId.i)
    /\ Falsy(l.columns) /\ l.limit >= 1 /\ l.offset = 0

\* v plus the injected timestamps
Inserted(l) ==
    [c \in DOMAIN l.after.values
           \cup ({"created_at", "updated_at"} \cap ColumnSet(l.table)) |->
        IF c \in DOMAIN l.after.values THEN l.after.values[c] ELSE IntV(l.after.clock)]

\* C9 as claimed: the query returns exactly one row, whose fields equal v plus the
\* injected timestamp fields.
C9_Claimed ==
    RoundTrip(last) =>
        /\ last.err = "" /\ last.rowCount = 1 /\ Len(last.rows) = 1
        /\ \A c \in DOMAIN Inserted(last) : last.rows[1][c] = Inserted(last)[c]

\* C9 as amended: the query returns exactly one row, whose fields are v plus the
\* injected timestamps as SQLite stores them (a value is converted to the
\* affinity of its column: the integer 7 given as a name comes back as the text
\* "7"), unless the server purges at every call and the inserted row is already
\* eligible for the sweep at the time of the query: then it returns no row.
C9_RoundTrip ==
    RoundTrip(last) =>
        /\ last.err = ""
        /\ IF eager /\ StaleEligible(last.table, Inserted(last), last.clock)
           THEN last.rowCount = 0 /\ last.rows = <<>>
           ELSE /\ last.rowCount = 1 /\ Len(last.rows) = 1
                /\ last.rows[1]["id"] = last.after.lastRowId
                /\ \A c \in DOMAIN Inserted(last) :
                      last.rows[1][c] = ApplyAffinity(ColAffinity(c), Inserted(last)[c])

\* a round trip returned the row of an insert that supplied its own updated_at
C9_Witness ==
    /\ RoundTrip(last) /\ last.rowCount = 1
    /\ "updated_at" \in DOMAIN last.after.values
    /\ last.rows[1]["updated_at"] = last.after.values["updated_at"]

(***************************************************************************)
(* The Retention Sweeper on food_24h and medical_history: rows of every    *)
(* age on both sides of the two boundaries, and the sweep at start-up and  *)
(* (src/userdb.py) at every tool call.                                     *)
(***************************************************************************)
RecoveredLong == TextV(<<"r", "e", "c", "o", "v", "e", "r", "e", "d", "x">>)

BoundaryFood(clock) == ("name" :> Tea) @@ ("taken_at" :> IntV(clock - Day))
RecoveredCondition == ("condition" :> Flu) @@ ("status" :> Recovered)
RecentCondition(clock) == ("condition" :> Flu) @@ ("status" :> Recovered)
                          @@ ("updated_at" :> IntV(clock - TwoWeeks + 1))
OldCondition(status, clock) == ("condition" :> Flu) @@ ("status" :> status)
                               @@ ("updated_at" :> IntV(clock - TwoWeeks))
OldNoStatus(clock) == ("condition" :> Flu) @@ ("updated_at" :> IntV(clock - TwoWeeks))

\* <<table, values>>
SweepInserts(clock) ==
    { <<"food_24h", FreshFood(clock)>>,
      <<"food_24h", BoundaryFood(clock)>>,
      <<"food_24h", StaleFood(clock)>>,
      <<"medical_history", RecoveredCondition>>,
      <<"medical_history", RecentCondition(clock)>>,
      <<"medical_history", OldNoStatus(clock)>> }
    \cup
    { <<"medical_history", OldCondition(st, clock)>> :
        st \in {Recovered, RecoveredUpper, RecoveredLong, Unrecovered} }

\* <<table, columns, where, order_by, limit, offset>>
SweepQueries ==
    { <<t, NoneArg, NoneArg, NoneArg, 50, 0>> : t \in {"food_24h", "medical_history"} }

NextSweep ==
    \/ Lifespan
    \/ \E c \in SweepInserts(now) : InsertUpTo(MaxRows + 1, c[1], c[2])
    \/ \E c \in SweepQueries : Query(c[1], c[2], c[3], c[4], c[5], c[6])
    \/ Update("medical_history", ("status" :> Recovered), ById(1))
    \/ Delete("medication", NoneArg)

SpecSweep == Init /\ [][NextSweep]_vars

\* the step ran the Sweeper and nothing else wrote to the table
SweeperRan(l, table) ==
    \/ l.op = "lifespan"
    \/ IsToolCall(l) /\ eager /\ l.table # table

\* the query asks for every row of the table
QueryAll(l, table) ==
    /\ l.op = "query" /\ l.table = table /\ l.err = ""
    /\ Falsy(l.where) /\ Falsy(l.columns) /\ l.offset = 0 /\ l.limit >= MaxRows + 2

FoodKept(rows, clock) ==
    {r \in rows : ~(r["taken_at"].t = "int" /\ r["taken_at"].i < clock - 86400)}

\* C5: a Sweeper run at time now removes from food_24h exactly the rows with
\* taken_at < now - 86400; every row with taken_at >= now - 86400, the boundary
\* included, is retained unchanged, and a query for all food_24h rows that
\* follows the run returns the retained rows and no removed one.
C5_SweepFood ==
    [][/\ SweeperRan(last', "food_24h") =>
             db'["food_24h"] = FoodKept(db["food_24h"], now)
       /\ (last.op = "lifespan" /\ QueryAll(last', "food_24h")) =>
             /\ Range(last'.rows) = db["food_24h"]
             /\ \A k \in 1..Len(last'.rows) :
                   last'.rows[k]["taken_at"].i >= now - 86400]_vars

\* a start-up sweep removed a food row and kept the row on the boundary
C5_Witness ==
    /\ last.op = "lifespan" /\ last.purged = 1
    /\ seq["medical_history"] = 0
    /\ \E r \in db["food_24h"] : r["taken_at"] = IntV(now - 86400)

\* status begins with the literal prefix "recovered"
LiteralRecovered(v) ==
    v.t = "text" /\ Len(v.s) >= 9 /\ SubSeq(v.s, 1, 9) = <<"r", "e", "c", "o", "v", "e", "r", "e", "d">>

\* last updated 14 days before clock, or earlier
OldEnough(row, clock) ==
    row["updated_at"].t = "int" /\ row["updated_at"].i <= clock - 1209600

\* C6 as claimed: a Sweeper run removes from medical_history exactly the rows
\* whose status begins with the literal prefix "recovered" and whose
\* updated_at <= now - 14 days; every other row is retained unchanged.
C6_Claimed ==
    [][SweeperRan(last', "medical_history") =>
          db'["medical_history"]
              = {r \in db["medical_history"] :
                    ~(LiteralRecovered(r["status"]) /\ OldEnough(r, now))}]_vars

\* C6 as amended: a Sweeper run removes exactly the rows whose status begins
\* with "recovered" in any mix of upper and lower case (LIKE compares ASCII
\* letters without regard to case) and whose updated_at <= now - 14 days, the
\* boundary included; a row whose status is null or has no such prefix, and a
\* recovered row with updated_at > now - 14 days, is retained unchanged.
C6_SweepMedical ==
    [][SweeperRan(last', "medical_history") =>
          db'["medical_history"]
              = {r \in db["medical_history"] :
                    ~(LikeRecovered(r["status"]) /\ OldEnough(r, now))}]_vars

\* a start-up sweep removed a condition and kept a recovered one that is one
\* second short of 14 days old
C6_Witness ==
    /\ last.op = "lifespan" /\ last.purged = 1
    /\ seq["food_24h"] = 0
    /\ \E r \in db["medical_history"] :
          r["status"] = Recovered /\ r["updated_at"] = IntV(now - 1209600 + 1)

(***************************************************************************)
(* Medication and its parent condition: conditions are removed by delete   *)
(* and by the sweep while medication rows reference them.                  *)
(***************************************************************************)
\* <<table, values>>
ParentInserts(clock) ==
    { <<"medical_history", ActiveCondition>>,
      <<"medical_history", RecoveredCondition>>,
      <<"medical_history", StaleCondition(clock)>>,
      <<"medication", ("name" :> Asp) @@ ("condition_id" :> IntV(1))>>,
      <<"medication", ("name" :> Asp)>> }

\* <<table, where>>
ParentDeletes ==
    { <<"medical_history", ById(1)>>,
      <<"medication", ById(1)>>,
      <<"medication", NoneArg>> }

NextParent ==
    \/ Lifespan
    \/ Tick(TwoWeeks)
    \/ \E c \in ParentInserts(now) : InsertUpTo(MaxRows + 1, c[1], c[2])
    \/ \E c \in ParentDeletes : Delete(c[1], c[2])
    \/ Query("medication", NoneArg, NoneArg, NoneArg, 50, 0)

SpecParent == Init /\ [][NextParent]_vars

\* C7 as claimed: after a medical_history row is removed, by a delete or by the
\* Sweeper, every medication row whose condition_id referenced it still exists
\* and has condition_id = null.
C7_Claimed ==
    [][~(last'.op = "delete" /\ last'.table = "medication") =>
          \A r \in db["medication"] :
              (r["condition_id"] \in Ids(db["medical_history"])
                                     \ Ids(db'["medical_history"]))
              => [r EXCEPT !["condition_id"] = NullV] \in db'["medication"]]_vars

\* a delete removed the condition with id 1 and a medication row still points at it
C7_Witness ==
    /\ last.op = "delete" /\ last.table = "medical_history" /\ last.where = ById(1)
    /\ last.rowCount = 1
    /\ \E r \in db["medication"] : r["condition_id"] = IntV(1)

\* C8: the set of medication rows shrinks only through a successful delete on
\* table medication; a Sweeper run, at any clock value, and the removal of a
\* parent medical_history row leave every medication row in place.
C8_MedicationKept ==
    [][/\ Cardinality(db'["medication"]) < Cardinality(db["medication"]) =>
             last'.op = "delete" /\ last'.table = "medication" /\ last'.err = ""
       /\ (last'.op = "lifespan" \/ (IsToolCall(last') /\ last'.table # "medication")) =>
             db'["medication"] = db["medication"]]_vars

\* a start-up sweep removed the condition a medication row references, and the
\* medication row is in place
C8_Witness ==
    /\ last.op = "lifespan" /\ last.purged = 1
    /\ db["medical_history"] = {} /\ seq["medical_history"] = 1
    /\ \E r \in db["medication"] : r["condition_id"] = IntV(1)

(***************************************************************************)
(* Pagination: queries of food_24h with every limit and offset around the   *)
(* number of rows stored.                                                  *)
(***************************************************************************)
IdAtLeast(k) == Given(<<Cond("id", <<">", "=">>, IntV(k))>>)
NamedTea == Given(<<Lit("name", Tea)>>)

\* <<table, values>>
PageInserts(clock) ==
    { <<"food_24h", FreshFood(clock)>>,
      <<"food_24h", StaleFood(clock)>>,
      <<"food_24h", ("name" :> Flu) @@ ("taken_at" :> IntV(clock))>> }

\* <<table, columns, where, order_by, limit, offset>>
PageQueries ==
    { <<"food_24h", NoneArg, w, NoneArg, limit, offset>> :
        w \in {NoneArg, NamedTea, IdAtLeast(2)},
        limit \in (0 - 1)..(MaxRows + 1), offset \in 0..MaxRows }
    \cup
    { <<"food_24h", NoneArg, BadOpWhere, NoneArg, 1, 0>> }

NextPage ==
    \/ \E c \in PageInserts(now) : InsertUpTo(MaxRows + 1, c[1], c[2])
    \/ \E c \in PageQueries : Query(c[1], c[2], c[3], c[4], c[5], c[6])
    \/ Delete("food_24h", ById(1))

SpecPage == Init /\ [][NextPage]_vars

\* what a where mapping of PageQueries asks of a row
PageMatches(row, where) ==
    IF ~where.given \/ where.items = <<>> THEN TRUE
    ELSE IF where.items[1].structured
         THEN row[where.items[1].col].i >= where.items[1].value.i
         ELSE row[where.items[1].col] = where.items[1].value

\* C10: for every query, rowCount is the number of rows of the table that match
\* the where predicate, whatever limit and offset are, and nextOffset is
\* offset + limit when offset + limit < rowCount and null otherwise.
C10_Pagination ==
    (last.op = "query" /\ last.err = "") =>
        /\ last.rowCount
             = Cardinality({r \in db[last.table] : PageMatches(r, last.where)})
        /\ last.nextOffset = (IF last.offset + last.limit < last.rowCount
                              THEN IntV(last.offset + last.limit) ELSE NullV)

\* a first page of one row out of two matching rows
C10_Witness ==
    /\ last.op = "query" /\ last.err = "" /\ last.where = NamedTea
    /\ last.limit = 1 /\ last.offset = 0
    /\ last.rowCount = 2 /\ last.nextOffset = IntV(1) /\ Len(last.rows) = 1

(***************************************************************************)
(* IN with an empty sequence: alone and conjoined with other entries, on   *)
(* columns the table has, lacks, and on a name that is no identifier.      *)
(***************************************************************************)
InEmpty(col) == CondList(col, <<"i", "n">>, <<>>)

EmptyInWheres ==
    { Given(<<InEmpty(c)>>) : c \in {"id", "user_id", "id--"} }
    \cup
    { Given(<<InEmpty("created_at"), Lit("id", IntV(1))>>),
      Given(<<Lit("id", IntV(1)), InEmpty("name")>>),
      Given(<<InEmpty("name"), Cond("id", <<"=", "=">>, IntV(1))>>),
      Given(<<InEmpty("id"), Lit("user_id", IntV(1))>>),
      Given(<<CondList("id", <<"I", "N">>, <<IntV(1)>>)>>) }

\* <<table, values>>
EmptyInInserts(clock) ==
    { <<"food_24h", FreshFood(clock)>>,
      <<"food_24h", StaleFood(clock)>>,
      <<"medical_history", ActiveCondition>> }

EmptyInTables == {"food_24h", "medical_history"}

NextEmptyIn ==
    \/ \E c \in EmptyInInserts(now) : Insert(c[1], c[2])
    \/ \E t \in EmptyInTables, w \in EmptyInWheres :
          Query(t, NoneArg, w, NoneArg, 50, 0)
    \/ \E t \in EmptyInTables, w \in EmptyInWheres,
          v \in {("created_at" :> IntV(1)), NoValues} : Update(t, v, w)
    \/ \E t \in EmptyInTables, w \in EmptyInWheres : Delete(t, w)

SpecEmptyIn == Init /\ [][NextEmptyIn]_vars

IsEmptyIn(it) == it.structured /\ NormOp(it.op) = OpIN /\ it.isList /\ it.list = <<>>

\* a query, update or delete whose where holds an IN with an empty sequence
EmptyInCall(l) ==
    /\ l.op \in {"query", "update", "delete"}
    /\ l.table \in ALLOWED_TABLES
    /\ \E k \in 1..Len(l.where.items) : IsEmptyIn(l.where.items[k])

\* the entry passes every check the call makes of it
SoundEntry(table, it) ==
    /\ QuoteIdentOk(it.col)
    /\ it.structured => NormOp(it.op) \in SupportedOps
    /\ IsEmptyIn(it) \/ it.col \in ColumnSet(table)

\* the call is sound in everything but the empty IN
SoundCall(l) ==
    /\ \A k \in 1..Len(l.where.items) : SoundEntry(l.table, l.where.items[k])
    /\ l.op = "update" =>
          DOMAIN l.values # {} /\ DOMAIN l.values \subseteq ColumnSet(l.table)

WriteInserts(clock) ==
    { <<"medical_history", RecoveredCondition>>,
      <<"medical_history", ("condition" :> Flu) @@ ("created_at" :> IntV(T0 - 1))>>,
      <<"medical_history", ActiveCondition @@ ("updated_at" :> IntV(T0 - 1))>>,
      <<"food_24h", FreshFood(clock)>>,
      <<"food_24h", FreshFood(clock) @@ ("id" :> IntV(1))>> }

\* <<table, values, where>>
WriteUpdates ==
    { <<"medical_history", ("status" :> Recovered), ById(1)>>,
      <<"medical_history", ("severity" :> Note) @@ ("updated_at" :> IntV(T0 - 1)), ById(1)>>,
      <<"food_24h", ("notes" :> Note), NamedTea>>,
      <<"food_24h", ("notes" :> Note), NoneArg>> }

NextWrites ==
    \/ Lifespan
    \/ Tick(TwoWeeks)
    \/ \E c \in WriteInserts(now) : InsertUpTo(MaxRows + 1, c[1], c[2])
    \/ \E c \in WriteUpdates : Update(c[1], c[2], c[3])
    \/ Delete("food_24h", ById(1))
    \/ \E t \in {"medical_history", "food_24h"} :
          Query(t, NoneArg, NoneArg, NoneArg, 50, 0)

SpecWrites == Init /\ [][NextWrites]_vars

\* the timestamp an insert stores in column c: the one given, else the clock
StampStored(l, c, clock) ==
    IF c \in DOMAIN l.values THEN l.values[c] ELSE IntV(clock)

\* C12: after a successful insert the stored row has created_at and, where the
\* table has the column, updated_at equal to the clock value at the call when
\* the values supply neither; a created_at or updated_at supplied is stored as
\* given; a food_24h row (no updated_at column) gets created_at only.
C12_InsertStamps ==
    [][(last'.op = "insert" /\ last'.err = "") =>
          \E r \in db'[last'.table] :
              /\ r["id"] = last'.lastRowId
              /\ r["created_at"] = StampStored(last', "created_at", now)
              /\ IF last'.table = "food_24h"
                 THEN "updated_at" \notin DOMAIN r
                 ELSE r["updated_at"] = StampStored(last', "updated_at", now)]_vars

\* an insert that supplied created_at stored it and stamped updated_at with the clock
C12_Witness ==
    /\ last.op = "insert" /\ last.err = "" /\ last.table = "medical_history"
    /\ "created_at" \in DOMAIN last.values
    /\ \E r \in db["medical_history"] :
          /\ r["id"] = last.lastRowId
          /\ r["created_at"] = IntV(T0 - 1) /\ r["updated_at"] = IntV(now)

(***************************************************************************)
(* C13: the frame of table_update                                          *)
(***************************************************************************)
\* the row an update with these values makes of a matched row
UpdateTarget(row, values, clock) ==
    [c \in DOMAIN row |->
        IF c \in DOMAIN values THEN values[c]
        ELSE IF c = "updated_at" THEN IntV(clock)
        ELSE row[c]]

\* the store a successful update of l.table leaves of the store d
UpdateFrame(d, l, clock) ==
    [d EXCEPT ![l.table] =
        {r \in @ : ~PageMatches(r, l.where)}
          \cup {UpdateTarget(r, l.values, clock) : r \in {x \in @ : PageMatches(x, l.where)}}]

UpdateDone(l) == l.op = "update" /\ l.err = ""

\* C13 as claimed: a successful update changes exactly the rows of the store
\* that match where, setting the given values and updated_at (the caller's, or
\* the call-time clock), leaves every other row of every table unchanged, and
\* returns rowCount = number of matched rows and lastRowId = null.
C13_Claimed ==
    [][UpdateDone(last') =>
          /\ db' = UpdateFrame(db, last', now)
          /\ last'.rowCount
               = Cardinality({r \in db[last'.table] : PageMatches(r, last'.where)})
          /\ last'.lastRowId = NullV]_vars

\* C13 as amended: the same frame, taken over the store the sweep at the
\* start of the call leaves: rows the sweep removes are gone from every table
\* and are not counted, every other row is changed only if it matches where.
C13_UpdateFrame ==
    [][UpdateDone(last') =>
          /\ db' = UpdateFrame(AfterTouch(db), last', now)
          /\ last'.rowCount
               = Cardinality({r \in AfterTouch(db)[last'.table] :
                                  PageMatches(r, last'.where)})
          /\ last'.lastRowId = NullV]_vars

\* an update that matched one of two rows of medical_history, with the
\* caller's updated_at stored on the matched row
C13_Witness ==
    /\ UpdateDone(last) /\ last.table = "medical_history" /\ last.rowCount = 1
    /\ "updated_at" \in DOMAIN last.values
    /\ Cardinality(db["medical_history"]) = 2
    /\ \E r \in db["medical_history"] :
          r["id"] = IntV(1) /\ r["updated_at"] = last.values["updated_at"]
                            /\ r["severity"] = Note

(***************************************************************************)
(* C14: the Retention Sweeper run twice                                    *)
(***************************************************************************)
\* the step ran the Sweeper and wrote nothing after it
SweptLast(l) == l.op = "lifespan" \/ (eager /\ l.op = "query")

PyNone == [k |-> "none", s |-> "", i |-> 0, l |-> <<>>, d |-> <<>>]
PyStr(s) == [k |-> "str", s |-> s, i |-> 0, l |-> <<>>, d |-> <<>>]
PyInt(i) == [k |-> "int", s |-> "", i |-> i, l |-> <<>>, d |-> <<>>]
PyList(l) == [k |-> "list", s |-> "", i |-> 0, l |-> l, d |-> <<>>]
PyDict(d) == [k |-> "dict", s |-> "", i |-> 0, l |-> <<>>, d |-> d]
PyText(words) == [k |-> "text", s |-> "", i |-> 0, l |-> words, d |-> <<>>]

\* d.get(key)
Get(d, key) == IF key \in DOMAIN d THEN d[key] ELSE PyNone

\* "not v" of Python
PyFalsy(v) ==
    CASE v.k = "none" -> TRUE
      [] v.k = "str" -> v.s = ""
      [] v.k = "int" -> v.i = 0
      [] v.k \in {"list", "text"} -> v.l = <<>>
      [] OTHER -> DOMAIN v.d = {}

\* mutant: the default replaces what the caller gave
SetDefaultAlways(d, key, v) == (key :> v) @@ d

\* d.setdefault(key, v)
SetDefault(d, key, v) == IF key \in DOMAIN d THEN d ELSE d @@ (key :> v)

(***************************************************************************)
(* A string payload is the sequence of its pieces: "ws" blanks, "nl" a     *)
(* line break, "text" words that hold no brace, "{" and "}" a lone brace,   *)
(* and "json" the text of one JSON object, whose value is d.               *)
(***************************************************************************)
Piece(c) == [c |-> c, d |-> <<>>]
JsonText(d) == [c |-> "json", d |-> d]

IsSpace(p) == p.c \in {"ws", "nl"}

\* str.strip() of a string of pieces
RECURSIVE LStripPieces(_)
LStripPieces(ps) ==
    IF ps # <<>> /\ IsSpace(Head(ps)) THEN LStripPieces(Tail(ps)) ELSE ps

RECURSIVE RStripPieces(_)
RStripPieces(ps) ==
    IF ps # <<>> /\ IsSpace(ps[Len(ps)]) THEN RStripPieces(SubSeq(ps, 1, Len(ps) - 1))
    ELSE ps

StripPieces(ps) == RStripPieces(LStripPieces(ps))

\* s.splitlines()[0]: the pieces before the first line break
RECURSIVE FirstLine(_)
FirstLine(ps) ==
    IF ps = <<>> \/ Head(ps).c = "nl" THEN <<>>
    ELSE <<Head(ps)>> \o FirstLine(Tail(ps))

\* the index of the last piece that ends with a closing brace, 0 if none
RECURSIVE LastClose(_)
LastClose(ps) ==
    IF ps = <<>> THEN 0
    ELSE IF ps[Len(ps)].c \in {"}", "json"} THEN Len(ps)
    ELSE LastClose(SubSeq(ps, 1, Len(ps) - 1))

\* re.search(r"\{.*\}", s, flags=re.S) on a string that starts with a brace:
\* the slice from the first opening brace to the last closing brace
BraceSlice(ps) == SubSeq(ps, 1, LastClose(ps))

\* json.loads of the slice succeeds on the text of one object, and on an
\* opening and a closing brace with only blanks between them
IsEmptyObject(slice) ==
    /\ Len(slice) >= 2 /\ slice[1].c = "{" /\ slice[Len(slice)].c = "}"
    /\ \A k \in 2..(Len(slice) - 1) : IsSpace(slice[k])

JsonLoadsOk(slice) == (Len(slice) = 1 /\ slice[1].c = "json") \/ IsEmptyObject(slice)

JsonLoads(slice) == IF Len(slice) = 1 THEN slice[1].d ELSE <<>>

\* payloads: a dict, a str, or another object
DictPayload(d) == [kind |-> "dict", d |-> d, pieces |-> <<>>]
StrPayload(ps) == [kind |-> "str", d |-> <<>>, pieces |-> ps]
OtherPayload == [kind |-> "other", d |-> <<>>, pieces |-> <<>>]

Extracted(d) == [err |-> "", d |-> d]
ExtractRaises(e) == [err |-> e, d |-> <<>>]

\* {"query": s.splitlines()[0].strip()}: splitlines() of "" is [], whose [0]
\* raises IndexError
FirstLineQuery(ps) ==
    IF ps = <<>> THEN ExtractRaises("IndexError")
    ELSE Extracted("query" :> PyText([k \in 1..Len(StripPieces(FirstLine(ps)))
                                        |-> StripPieces(FirstLine(ps))[k].c]))

\* _extract_json_or_text on the stripped string
ExtractStripped(ps) ==
    IF ps # <<>> /\ Head(ps).c \in {"{", "json"}
       /\ LastClose(ps) > 0 /\ JsonLoadsOk(BraceSlice(ps))
    THEN Extracted(JsonLoads(BraceSlice(ps)))
    ELSE FirstLineQuery(ps)

\* _extract_json_or_text
ExtractJsonOrText(payload) ==
    CASE payload.kind = "dict" -> Extracted(payload.d)
      [] payload.kind = "other" -> Extracted("query" :> PyText(<<"text">>))
      [] OTHER -> ExtractStripped(StripPieces(payload.pieces))

\* mutant: no coercion of a bare string
CoerceNever(d, key) == d

\* if isinstance(d.get(key), str): d[key] = [d[key]]
Coerce(d, key) ==
    IF Get(d, key).k = "str" THEN [d EXCEPT ![key] = PyList(<<@.s>>)] ELSE d

CoerceLists(d) == Coerce(Coerce(d, "order_by"), "columns")

\* the keys _clean_tool_args pops: None, {} and []
IsEmptyOptional(v) ==
    \/ v.k = "none"
    \/ v.k = "dict" /\ DOMAIN v.d = {}
    \/ v.k = "list" /\ v.l = <<>>

DropEmpties(d) ==
    [key \in {x \in DOMAIN d :
                 ~(x \in {"where", "order_by", "columns"} /\ IsEmptyOptional(d[x]))}
        |-> d[key]]

\* _clean_tool_args
CleanToolArgs(d) == DropEmpties(CoerceLists(d))

\* args = payload if "table" in payload else payload.get("arguments", payload)
ArgsOf(payload) ==
    IF "table" \in DOMAIN payload \/ "arguments" \notin DOMAIN payload
    THEN PyDict(payload) ELSE payload["arguments"]

\* if "where" not in args or args["where"] is None: args["where"] = {}
WhereDict(d) ==
    IF Get(d, "where").k = "none" THEN ("where" :> PyDict(<<>>)) @@ d ELSE d

\* the default ordering column of a table
DefaultOrder(tbl) == IF tbl = "food_24h" THEN "taken_at" ELSE "updated_at"

\* mutant: the last 24 hours without their first second
DefaultWhereStrict(tbl, eagerMode, clock) ==
    IF tbl = "food_24h" \/ eagerMode
    THEN PyDict("taken_at" :> Cond("taken_at", <<">">>, IntV(clock - Day)))
    ELSE PyDict("created_at" :> Cond("created_at", <<"<">>, IntV(clock)))

\* the default predicate: taken_at >= now - 24 h in src/new_agent.py for every
\* table; in src/agents/new_agent_trial.py created_at < now for medication and
\* medical_history
DefaultWhere(tbl, eagerMode, clock) ==
    IF tbl = "food_24h" \/ eagerMode
    THEN PyDict("taken_at" :> Cond("taken_at", <<">", "=">>, IntV(clock - Day)))
    ELSE PyDict("created_at" :> Cond("created_at", <<"<">>, IntV(clock)))

\* mutant: the default predicate replaces whatever the caller gave
DefaultFilterAlways(d, tbl, eagerMode, clock) ==
    [d EXCEPT !["where"] = DefaultWhere(tbl, eagerMode, clock)]

\* if not args["where"]: args["where"] = <default>
DefaultFilter(d, tbl, eagerMode, clock) ==
    IF PyFalsy(d["where"])
    THEN [d EXCEPT !["where"] = DefaultWhere(tbl, eagerMode, clock)] ELSE d

\* the branch of one table: order_by, where and limit defaults
TableDefaults(d, tbl, eagerMode, clock) ==
    SetDefault(DefaultFilter(SetDefault(d, "order_by", PyList(<<DefaultOrder(tbl)>>)),
                             tbl, eagerMode, clock),
               "limit", PyInt(50))

\* the table-specific defaults of _normalize_query_args
Defaults(d, eagerMode, clock) ==
    IF Get(d, "table").k = "str" /\ Get(d, "table").s \in ALLOWED_TABLES
    THEN TableDefaults(d, d["table"].s, eagerMode, clock) ELSE d

\* _normalize_query_args
NormalizeQueryArgs(payload, eagerMode, clock) ==
    IF ArgsOf(payload).k # "dict" THEN payload
    ELSE Defaults(WhereDict(CoerceLists(ArgsOf(payload).d)), eagerMode, clock)

(***************************************************************************)
(* The tool wrapper as a state machine: a payload is received for a tool,  *)
(* _extract_json_or_text makes a mapping of it, and the guard of the tool  *)
(* makes the descriptor that is handed to the tool.                        *)
(***************************************************************************)
WrapperState(op, tool, payload, clock, err, data, descriptor) ==
    [op |-> op, tool |-> tool, payload |-> payload, clock |-> clock, err |-> err,
     data |-> data, descriptor |-> descriptor]

Tools == {"table_query", "table_insert", "table_update", "table_delete"}

\* a key that may be absent
Optional(key, vals) == {<<>>} \cup {key :> v : v \in vals}

NameIsTea == "name" :> Lit("name", Tea)

\* descriptors a caller writes
Descriptors ==
    { t @@ w @@ o @@ c @@ l :
        t \in Optional("table", {PyStr(x) : x \in ALLOWED_TABLES}),
        w \in Optional("where", {PyNone, PyDict(<<>>), PyDict(NameIsTea), PyInt(1)}),
        o \in Optional("order_by", {PyNone, PyStr("taken_at"), PyList(<<"taken_at">>),
                                    PyList(<<>>)}),
        c \in Optional("columns", {PyStr("name"), PyList(<<"name", "id">>), PyList(<<>>)}),
        l \in Optional("limit", {PyInt(10)}) }

\* a full descriptor, for the strings around which other text stands
Tidy == ("table" :> PyStr("food_24h")) @@ ("where" :> PyDict(NameIsTea))
          @@ ("order_by" :> PyStr("taken_at"))

Payloads ==
    { DictPayload(d) : d \in Descriptors }
    \cup { DictPayload("arguments" :> PyDict(d)) : d \in Descriptors }
    \cup { StrPayload(<<JsonText(d)>>) : d \in Descriptors }
    \cup { StrPayload(<<Piece("ws"), JsonText("arguments" :> PyDict(d)), Piece("nl")>>) :
             d \in Descriptors }
    \cup { StrPayload(ps) : ps \in
             { <<>>, <<Piece("ws")>>, <<Piece("nl"), Piece("ws")>>,
               <<Piece("text"), Piece("ws"), Piece("text"), Piece("nl"), Piece("text")>>,
               <<Piece("{"), Piece("}")>>, <<Piece("{"), Piece("ws"), Piece("}")>>,
               <<Piece("{"), Piece("text")>>, <<Piece("{"), Piece("text"), Piece("}")>>,
               <<Piece("text"), JsonText(Tidy)>>,
               <<JsonText(Tidy), Piece("nl"), Piece("text")>>,
               <<JsonText(Tidy), Piece("text"), Piece("}")>>,
               <<JsonText(Tidy), Piece("nl"), JsonText(Tidy)>> } }
    \cup { OtherPayload, DictPayload("arguments" :> PyInt(1)),
           DictPayload(("arguments" :> PyInt(1)) @@ ("order_by" :> PyStr("taken_at"))) }

Clocks == {T0 + k * Day : k \in 0..MaxTicks}

InitNormalize ==
    /\ now \in Clocks
    /\ eager \in BOOLEAN
    /\ db = [t \in ALLOWED_TABLES |-> {}]
    /\ seq = [t \in ALLOWED_TABLES |-> 0]
    /\ last \in {WrapperState("received", tool, p, T0, "", <<>>, <<>>) :
                    tool \in Tools, p \in Payloads}

\* data = _extract_json_or_text(s)
ExtractStep ==
    /\ last.op = "received"
    /\ \E x \in {ExtractJsonOrText(last.payload)} :
          last' = WrapperState(IF x.err = "" THEN "extracted" ELSE "raised",
                               last.tool, last.payload, now, x.err, x.d, <<>>)
    /\ UNCHANGED <<now, eager, db, seq>>

\* data = _normalize_query_args(data), for table_query
NormalizeStep ==
    /\ last.op = "extracted" /\ last.tool = "table_query"
    /\ last' = [last EXCEPT !.op = "handed", !.clock = now,
                            !.descriptor = NormalizeQueryArgs(last.data, eager, now)]
    /\ UNCHANGED <<now, eager, db, seq>>

\* data = _clean_tool_args(data), for every other tool
CleanStep ==
    /\ last.op = "extracted" /\ last.tool # "table_query"
    /\ last' = [last EXCEPT !.op = "handed", !.clock = now,
                            !.descriptor = CleanToolArgs(last.data)]
    /\ UNCHANGED <<now, eager, db, seq>>

NextNormalize == ExtractStep \/ NormalizeStep \/ CleanStep

SpecNormalize == InitNormalize /\ [][NextNormalize]_vars

(***************************************************************************)
(* C15, C16: what the Normalizer makes of the descriptor the caller wrote  *)
(***************************************************************************)
\* the payload is a string that holds one JSON object and blanks only
IsJsonString(p) ==
    /\ p.kind = "str"
    /\ Len(StripPieces(p.pieces)) = 1 /\ StripPieces(p.pieces)[1].c = "json"

Structured(p) == p.kind = "dict" \/ IsJsonString(p)

\* the mapping a structured payload denotes
Written(p) == IF p.kind = "dict" THEN p.d ELSE StripPieces(p.pieces)[1].d

IsNested(m) == DOMAIN m = {"arguments"} /\ m["arguments"].k = "dict"

\* the descriptor the caller wrote: the mapping, or what it nests under "arguments"
CallerArgs(p) == IF IsNested(Written(p)) THEN Written(p)["arguments"].d ELSE Written(p)

\* the caller specified a filter: where is a non-empty mapping
HasFilter(p) ==
    /\ Structured(p)
    /\ "where" \in DOMAIN CallerArgs(p)
    /\ CallerArgs(p)["where"].k = "dict" /\ DOMAIN CallerArgs(p)["where"].d # {}

\* C15: the Normalizer never drops a caller-specified filter.  For every
\* payload to the query tool (a dict, a JSON string, flat or nested under
\* "arguments") whose where is a non-empty mapping, the wrapper does not raise
\* and the where of the descriptor handed to the tool is the caller's where,
\* with no key removed, replaced or added, whatever the table.
C15_FilterKept ==
    (last.op \in {"raised", "handed"} /\ last.tool = "table_query"
        /\ HasFilter(last.payload)) =>
        /\ last.op = "handed"
        /\ "where" \in DOMAIN last.descriptor
        /\ last.descriptor["where"] = CallerArgs(last.payload)["where"]

\* a JSON string with the descriptor nested under "arguments", for a table
\* that has a default predicate, handed on with the caller's where
C15_Witness ==
    /\ last.op = "handed" /\ last.tool = "table_query"
    /\ last.payload.kind = "str" /\ HasFilter(last.payload)
    /\ IsNested(Written(last.payload))
    /\ Get(last.descriptor, "table") = PyStr("medication")
    /\ last.descriptor["where"] = PyDict(NameIsTea)
    /\ Get(last.descriptor, "limit") = PyInt(50)

ListKeys == {"order_by", "columns"}

\* the value of key in d is a bare string / a list
BareString(d, key) == Get(d, key).k = "str"
IsList(d, key) == Get(d, key).k = "list"

\* what C16 says of one key: a bare string s becomes [s], a list stays as it is
Canonical(written, handed, key) ==
    /\ BareString(written, key) => Get(handed, key) = PyList(<<written[key].s>>)
    /\ IsList(written, key) => Get(handed, key) = written[key]

\* C16 as claimed: for every payload, on the query path and on the
\* insert/update/delete path, a bare string s given as order_by (or columns)
\* is [s] in the normalized descriptor, and a list is passed through unchanged.
C16_Claimed ==
    (last.op = "handed" /\ Structured(last.payload)) =>
        \A key \in ListKeys : Canonical(CallerArgs(last.payload), last.descriptor, key)

\* the mapping holds the descriptor itself, or nothing but the descriptor
\* under "arguments"
Plain(m) == "arguments" \notin DOMAIN m \/ IsNested(m)

\* C16 as amended: on the query path, for a descriptor given flat or alone
\* under "arguments", a bare string s is [s] and a list, empty or not, is
\* unchanged.  On the insert/update/delete path only a flat descriptor is
\* normalized: a bare string s is [s], a non-empty list is unchanged and an
\* empty list is removed; a descriptor nested under "arguments" is handed on as
\* it was written, bare strings included.
C16_Coercion ==
    (last.op = "handed" /\ Structured(last.payload) /\ Plain(Written(last.payload))) =>
        IF last.tool = "table_query"
        THEN \A key \in ListKeys :
                Canonical(CallerArgs(last.payload), last.descriptor, key)
        ELSE IF IsNested(Written(last.payload))
        THEN last.descriptor = Written(last.payload)
        ELSE \A key \in ListKeys :
                /\ BareString(Written(last.payload), key)
                     => Get(last.descriptor, key) = PyList(<<Written(last.payload)[key].s>>)
                /\ IsList(Written(last.payload), key)
                     => IF Written(last.payload)[key].l = <<>>
                        THEN key \notin DOMAIN last.descriptor
                        ELSE last.descriptor[key] = Written(last.payload)[key]

\* an update payload with a bare order_by and a bare columns, both handed on
\* as single-element lists
C16_Witness ==
    /\ last.op = "handed" /\ last.tool = "table_update" /\ last.payload.kind = "dict"
    /\ BareString(last.payload.d, "order_by") /\ BareString(last.payload.d, "columns")
    /\ Get(last.descriptor, "order_by") = PyList(<<"taken_at">>)
    /\ Get(last.descriptor, "columns") = PyList(<<"name">>)

(***************************************************************************)
(* C17: what a query shows in the eager mode                               *)
(***************************************************************************)
\* the row is one the retention rules name at time clock
StaleRow(table, row, clock) ==
    \/ /\ table = "food_24h"
       /\ row["taken_at"].t = "int" /\ row["taken_at"].i < clock - 86400
    \/ /\ table = "medical_history"
       /\ LiteralRecovered(row["status"]) /\ OldEnough(row, clock)

\* C17: in the eager mode no caller observes a stale-eligible row.  A query
\* started at clock value t returns no food_24h row with taken_at < t - 86400
\* and no medical_history row whose status begins with "recovered" and whose
\* updated_at <= t - 14 days, whatever inserts, updates and clock advances
\* came before.
C17_NoStaleRowSeen ==
    (eager /\ last.op = "query" /\ last.err = "") =>
        \A k \in 1..Len(last.rows) : ~StaleRow(last.table, last.rows[k], last.clock)

\* an eager query that purged a row at its start and returned another
C17_Witness ==
    /\ eager /\ last.op = "query" /\ last.err = ""
    /\ last.purged >= 1 /\ Len(last.rows) >= 1
    /\ last.clock >= T0 + TwoWeeks

(***************************************************************************)
(* C18, C19: identifiers and operators.  Calls whose table, columns,       *)
(* order_by, values keys or where keys hold a name with a character that   *)
(* is no letter, digit or underscore, and calls whose where holds          *)
(* operators in and out of the supported set, beside sound calls.          *)
(***************************************************************************)
IdentTables == {"food_24h", "id--"}

\* an operator as the caller spells it, and as str(op).strip().upper() names it
OpSpellings ==
    { <<op, op>> : op \in SupportedOps \cup {<<"~">>, <<"=", "=">>} }
    \cup { << <<" ", "l", "i", "k", "e">>, <<"L", "I", "K", "E">> >>,
           << <<"i", "n", " ">>, <<"I", "N">> >>, << <<"i", "n">>, <<"I", "N">> >>,
           << <<"b", "e", "t", "w", "e", "e", "n">>,
              <<"B", "E", "T", "W", "E", "E", "N">> >> }

\* {col: {"op": op, "value": ...}} with a value the operator can take
OpEntry(col, op) ==
    IF op \in {<<"I", "N">>, <<"i", "n", " ">>, <<"i", "n">>} THEN CondList(col, op, <<IntV(1)>>)
    ELSE Cond(col, op, IntV(1))

OpWheres ==
    { Given(<<OpEntry("id", p[1])>>) : p \in OpSpellings }
    \cup { Given(<<Lit("id--", IntV(1)), OpEntry("id", <<"~">>)>>),
           Given(<<OpEntry("id", <<"~">>), Lit("id--", IntV(1))>>),
           Given(<<OpEntry("id--", <<"~">>)>>),
           Given(<<OpEntry("id", <<"<", "=">>), OpEntry("name", <<"=", "=">>),
                   OpEntry("taken_at", <<"~">>)>>) }

IdentWheres == {ById(1), BadIdentWhere, Given(<<InEmpty("id--")>>)}

\* <<table, columns, where, order_by>>
IdentQueries ==
    { <<"food_24h", c, w, o>> :
        c \in {NoneArg, Given(<<"name">>), Given(<<"name", "id--">>)},
        w \in {NoneArg, Given(<<OpEntry("id", <<"~">>)>>)},
        o \in {NoneArg, Given(<<"id">>), Given(<<"id--">>)} }
    \cup { <<"food_24h", NoneArg, w, NoneArg>> :
             w \in IdentWheres \cup OpWheres
                     \cup {Given(<<Lit("name", Tea), Cond("id--", <<"=">>, IntV(1))>>)} }
    \cup { <<"id--", NoneArg, w, NoneArg>> :
             w \in {NoneArg, ById(1), Given(<<OpEntry("id", <<"~">>)>>)} }

\* <<table, values, where>>
IdentUpdates ==
    { <<"food_24h", v, w>> :
        v \in {NoValues, ("notes" :> Note) @@ ("id--" :> IntV(1))},
        w \in {ById(1), BadIdentWhere, Given(<<OpEntry("id", <<"~">>)>>)} }
    \cup { <<"food_24h", ("notes" :> Note), w>> : w \in IdentWheres \cup OpWheres }
    \cup { <<"id--", ("notes" :> Note), w>> :
             w \in {ById(1), Given(<<OpEntry("id", <<"~">>)>>)} }

\* <<table, where>>
IdentDeletes ==
    { <<"food_24h", w>> : w \in IdentWheres \cup OpWheres }
    \cup { <<"id--", w>> : w \in {ById(1), Given(<<OpEntry("id", <<"~">>)>>)} }

NextIdent ==
    \/ \E t \in IdentTables,
          v \in {FreshFood(now), FreshFood(now) @@ ("id--" :> IntV(1)), ("id--" :> Tea)} :
          Insert(t, v)
    \/ \E c \in IdentQueries : Query(c[1], c[2], c[3], c[4], 100, 0)
    \/ \E c \in IdentUpdates : Update(c[1], c[2], c[3])
    \/ \E c \in IdentDeletes : Delete(c[1], c[2])

SpecIdent == Init /\ [][NextIdent]_vars

\* the name holds a character that is no letter, digit or underscore
HasBadChar(name) ==
    \E k \in 1..Len(Spelling[name]) :
        Spelling[name][k] \notin (Range(UpperLetters) \cup Range(LowerLetters)
                                    \cup Range(Digits) \cup {"_"})

\* the names the caller supplied as identifiers
CallerNames(l) ==
    {l.table} \cup DOMAIN l.values
      \cup Range(l.columns.items) \cup Range(l.order_by.items)
      \cup {l.where.items[k].col : k \in 1..Len(l.where.items)}

BadIdentCall(l) == IsToolCall(l) /\ \E n \in CallerNames(l) : HasBadChar(n)

Normal(raw) == (CHOOSE p \in OpSpellings : p[1] = raw)[2]

WhereCall(l) == l.op \in {"query", "update", "delete"} /\ l.where.given

\* the entries with an operator mapping whose operator, as spelt, is outside
\* the supported set
SpeltOutside(l) ==
    {k \in 1..Len(l.where.items) :
        l.where.items[k].structured /\ l.where.items[k].op \notin SupportedOps}

\* the same, for the operator stripped of blanks and in upper case
Rejected(l) ==
    {k \in 1..Len(l.where.items) :
        l.where.items[k].structured /\ Normal(l.where.items[k].op) \notin SupportedOps}

\* none of the call's own statements ran
NoOwnStatement(l) ==
    \A k \in 1..Len(l.stmts) :
        l.stmts[k] \notin {"SELECT", "SELECT COUNT", "INSERT", "UPDATE", "DELETE"}

\* C19 as claimed: an operator outside {=, !=, >, >=, <, <=, LIKE, IN} makes
\* query, update and delete fail with a validation error naming the rejected
\* operator before any statement of the call executes, and every operator of
\* the set is accepted.
C19_Claimed ==
    [][WhereCall(last') =>
          IF SpeltOutside(last') # {}
          THEN /\ last'.err = "unsupported_operator"
               /\ \E k \in SpeltOutside(last') :
                     last'.badOp \in {last'.where.items[k].op,
                                      Normal(last'.where.items[k].op)}
               /\ NoOwnStatement(last')
               /\ db' = AfterTouch(db)
          ELSE last'.err # "unsupported_operator"]_vars

\* every check the call makes before it reads the operator of entry k passes
ReachesOp(l, k) ==
    /\ l.table \in ALLOWED_TABLES
    /\ l.op = "update" => DOMAIN l.values # {} /\ DOMAIN l.values \subseteq ColumnSet(l.table)
    /\ l.op = "query" => Range(l.columns.items) \cup Range(l.order_by.items)
                           \subseteq ColumnSet(l.table)
    /\ \A j \in 1..k : ~HasBadChar(l.where.items[j].col)

\* C19 as amended: operators are compared after blanks are stripped and letters
\* put in upper case.  A where entry whose operator is then outside the set
\* makes query, update and delete fail before the call's own statement
\* executes, the store being as the sweep at the start of the call leaves it;
\* the error is the operator error naming the first such operator, in its
\* normalized spelling, unless an earlier check of the call fails (table,
\* values, columns, order_by, or the identifier of this or an earlier where
\* key), whose error is then raised instead.  An operator that is in the set
\* after normalization is never rejected as unsupported.
C19_Operators ==
    [][WhereCall(last') =>
          IF Rejected(last') # {}
          THEN /\ last'.err \in ValidationErrors
               /\ NoOwnStatement(last')
               /\ db' = AfterTouch(db) /\ seq' = seq
               /\ IF ReachesOp(last', Min(Rejected(last')))
                  THEN /\ last'.err = "unsupported_operator"
                       /\ last'.badOp
                            = Normal(last'.where.items[Min(Rejected(last'))].op)
                  ELSE last'.err # "unsupported_operator"
          ELSE last'.err # "unsupported_operator"]_vars

\* a delete of a stored row by "between" was refused, the error naming BETWEEN
C19_Witness ==
    /\ last.op = "delete" /\ last.table = "food_24h"
    /\ last.err = "unsupported_operator"
    /\ last.badOp = <<"B", "E", "T", "W", "E", "E", "N">>
    /\ NoOwnStatement(last)
    /\ db["food_24h"] # {}

(***************************************************************************)
(* C20: row ids                                                            *)
(***************************************************************************)
\* C20 as claimed: row ids are server-assigned and monotonic.  Within one
\* table each successful insert returns a lastRowId greater than every
\* lastRowId returned before (seq holds the greatest of them), so that no id
\* is given to a new row after its row was deleted or purged.
C20_Claimed ==
    [][(last'.op = "insert" /\ last'.err = "") =>
          last'.lastRowId.i > seq[last'.table]]_vars

\* an insert that supplied id = 1 was given 1 after the table had handed out 2
C20_Witness ==
    /\ last.op = "insert" /\ last.err = "" /\ last.table = "food_24h"
    /\ "id" \in DOMAIN last.values
    /\ last.lastRowId = IntV(1)
    /\ seq["food_24h"] >= 2

(***************************************************************************)
(* C21: what the table defaults leave of a query that carries a filter     *)
(***************************************************************************)
\* a query payload with a filter, for one of the three tables
FilteredQuery(l) ==
    /\ l.op = "handed" /\ l.tool = "table_query" /\ HasFilter(l.payload)
    /\ Get(CallerArgs(l.payload), "table").k = "str"
    /\ Get(CallerArgs(l.payload), "table").s \in ALLOWED_TABLES

\* the key is in both mappings with the same value, or in neither
SameEntry(written, handed, key) ==
    /\ (key \in DOMAIN written) = (key \in DOMAIN handed)
    /\ Get(written, key) = Get(handed, key)

\* C21 as claimed: when the query payload carries a non-empty where, the
\* normalized descriptor's where, order_by and limit are exactly what the
\* caller supplied, an absent order_by or limit staying absent, for each of
\* food_24h, medication and medical_history.
C21_Claimed ==
    FilteredQuery(last) =>
        \A key \in {"where", "order_by", "limit"} :
            SameEntry(CallerArgs(last.payload), last.descriptor, key)

\* the ordering column injected for a table
OrderColumn(table) == IF table = "food_24h" THEN "taken_at" ELSE "updated_at"

\* C21 as amended: when the query payload carries a non-empty where, only the
\* default predicate is withheld.  The where of the normalized descriptor is
\* the caller's; order_by is the caller's when the caller gave the key (a bare
\* string as a single-element list, null and [] as they are) and otherwise
\* [taken_at] for food_24h and [updated_at] for medication and
\* medical_history; limit is the caller's when given and otherwise 50.
C21_Defaults ==
    FilteredQuery(last) =>
        /\ SameEntry(CallerArgs(last.payload), last.descriptor, "where")
        /\ IF "order_by" \in DOMAIN CallerArgs(last.payload)
           THEN IF BareString(CallerArgs(last.payload), "order_by")
                THEN Get(last.descriptor, "order_by")
                       = PyList(<<CallerArgs(last.payload)["order_by"].s>>)
                ELSE SameEntry(CallerArgs(last.payload), last.descriptor, "order_by")
           ELSE Get(last.descriptor, "order_by")
                  = PyList(<<OrderColumn(last.descriptor["table"].s)>>)
        /\ IF "limit" \in DOMAIN CallerArgs(last.payload)
           THEN SameEntry(CallerArgs(last.payload), last.descriptor, "limit")
           ELSE Get(last.descriptor, "limit") = PyInt(50)

\* a filtered medical_history query that named no ordering and no limit was
\* handed on with [updated_at] and 50
C21_Witness ==
    /\ FilteredQuery(last) /\ last.payload.kind = "dict"
    /\ DOMAIN CallerArgs(last.payload) = {"table", "where"}
    /\ last.descriptor["table"] = PyStr("medical_history")
    /\ last.descriptor["where"] = PyDict(NameIsTea)
    /\ Get(last.descriptor, "order_by") = PyList(<<"updated_at">>)
    /\ Get(last.descriptor, "limit") = PyInt(50)

(***************************************************************************)
(* The agent's table_query tool end to end: the wrapper makes a descriptor *)
(* of the payload and hands it to table_query of the userdb.py beside it.  *)
(***************************************************************************)
\* the entries of a mapping, one after the other
RECURSIVE ItemsOf(_)
ItemsOf(d) ==
    IF DOMAIN d = {} THEN <<>>
    ELSE <<d[CHOOSE k \in DOMAIN d : TRUE]>>
           \o ItemsOf([x \in DOMAIN d \ {CHOOSE k \in DOMAIN d : TRUE} |-> d[x]])

\* the arguments table_query receives from the descriptor
ArgWhere(desc) ==
    IF Get(desc, "where").k = "dict" THEN Given(ItemsOf(desc["where"].d)) ELSE NoneArg
ArgList(desc, key) == IF Get(desc, key).k = "list" THEN Given(desc[key].l) ELSE NoneArg
ArgLimit(desc) == IF "limit" \in DOMAIN desc THEN desc["limit"].i ELSE 100

\* the tool's argument schema refuses the descriptor before table_query runs:
\* table: str is required, where an optional mapping, the two lists optional lists
BadArguments(desc) ==
    \/ Get(desc, "table").k # "str"
    \/ Get(desc, "where").k \notin {"none", "dict"}
    \/ \E key \in {"columns", "order_by"} : Get(desc, key).k \notin {"none", "list"}
    \/ DOMAIN desc \ {"table", "columns", "where", "order_by", "limit", "offset"} # {}

\* a call of the wrapped tool that ended before table_query ran
AgentFailed(payload, clock, err) ==
    ("payload" :> payload) @@ [NoCall("agent", clock, <<>>, 0) EXCEPT !.err = err]

\* the wrapper _call of table_query
AgentQuery(payload) ==
    \E x \in {ExtractJsonOrText(payload)} :
      \E desc \in {IF x.err = "" THEN NormalizeQueryArgs(x.d, eager, now) ELSE <<>>} :
        IF x.err # "" \/ BadArguments(desc)
        THEN /\ last' = AgentFailed(payload, now,
                                    IF x.err # "" THEN x.err ELSE "invalid_arguments")
             /\ UNCHANGED <<now, eager, db, seq>>
        ELSE \E o \in TableQuery(db, seq, now, eager, desc["table"].s,
                                 ArgList(desc, "columns"), ArgWhere(desc),
                                 ArgList(desc, "order_by"), ArgLimit(desc), 0) :
               /\ db' = o.db
               /\ seq' = o.seq
               /\ last' = ("payload" :> payload)
                            @@ CallRecord("agent", desc["table"].s, NoValues,
                                          ArgWhere(desc), ArgList(desc, "columns"),
                                          ArgList(desc, "order_by"), ArgLimit(desc), 0,
                                          now, After(last), Purged(db, now, eager), o)
               /\ UNCHANGED <<now, eager>>

AgentPayloads ==
    { DictPayload(("table" :> PyStr(t)) @@ w) :
        t \in ALLOWED_TABLES,
        w \in Optional("where", {PyNone, PyDict(<<>>), PyDict(NameIsTea)}) }
    \cup { StrPayload(<<JsonText("table" :> PyStr("food_24h"))>>),
           StrPayload(<<Piece("ws")>>), DictPayload(<<>>) }

\* <<table, values>>
AgentInserts(clock) ==
    { <<"food_24h", FreshFood(clock)>>,
      <<"food_24h", StaleFood(clock)>>,
      <<"medication", ("name" :> Asp)>>,
      <<"medical_history", ActiveCondition>> }

NextAgent ==
    \/ Lifespan
    \/ Tick(Day)
    \/ \E c \in AgentInserts(now) : InsertUpTo(MaxRows + 1, c[1], c[2])
    \/ \E p \in AgentPayloads : AgentQuery(p)

SpecAgent == Init /\ [][NextAgent]_vars

\* an agent query of a medication or medical_history table whose payload
\* carries no predicate
DefaultedQuery(l) ==
    /\ l.op = "agent"
    /\ l.table \in {"medication", "medical_history"}
    /\ ~HasFilter(l.payload)

(***************************************************************************)
(* C22: for medication and medical_history, a query whose caller supplies  *)
(* no predicate is handed on with where = {created_at: {op "<", value      *)
(* now}}, order_by = [updated_at] and limit = 50 by every implementation   *)
(* of the normalizer, and the query built from it is accepted: it fails    *)
(* with no error.                                                          *)
(***************************************************************************)
C22_Claimed ==
    DefaultedQuery(last)
      => /\ last.where = Given(<<Cond("created_at", <<"<">>, IntV(last.clock))>>)
         /\ last.order_by = Given(<<"updated_at">>)
         /\ last.limit = 50
         /\ last.err = ""

\* src/new_agent.py queries medication with no predicate: the predicate it
\* injects names taken_at, which medication lacks, and the query fails
C22_Witness ==
    /\ DefaultedQuery(last)
    /\ eager
    /\ last.table = "medication"
    /\ last.where = Given(<<Cond("taken_at", <<">", "=">>, IntV(last.clock - Day))>>)
    /\ last.err = "no_such_column"
    /\ last.stmts # <<>>

(***************************************************************************)
(* C23: the predicate src/agents/new_agent_trial.py injects for medication *)
(* and medical_history is trivially true.  In every reachable store, a     *)
(* query whose payload has no where succeeds and reports rowCount equal to *)
(* the number of rows of the table, the row inserted by the call just      *)
(* before it, at the same clock, included.                                 *)
(***************************************************************************)
C23_Claimed ==
    (~eager /\ DefaultedQuery(last))
      => /\ last.err = ""
         /\ last.rowCount = Cardinality(db[last.table])

\* the query follows the insert of a medication row within the same second:
\* the table holds the row and the query counts none
C23_Witness ==
    /\ ~eager
    /\ DefaultedQuery(last)
    /\ last.after.op = "insert" /\ last.after.table = "medication"
    /\ last.after.clock = last.clock
    /\ last.table = "medication"
    /\ last.err = ""
    /\ Cardinality(db["medication"]) = 1
    /\ \A r \in db["medication"] : r["created_at"] = IntV(last.clock)
    /\ last.rowCount = 0

(***************************************************************************)
(* C24: the string-parsing step is total.  For every string payload, the   *)
(* empty string, a whitespace-only string and a string of malformed JSON   *)
(* included, _extract_json_or_text returns a mapping and never raises.     *)
(***************************************************************************)
C24_Claimed ==
    (last.payload.kind = "str" /\ last.op # "received")
      => /\ last.op # "raised"
         /\ last.err = ""

\* a string payload that strips to the empty string: the first line of no
\* lines is asked for and the step raises
C24_Witness ==
    /\ last.payload.kind = "str"
    /\ StripPieces(last.payload.pieces) = <<>>
    /\ last.op = "raised"
    /\ last.err = "IndexError"

\* the wrapper has handed on a payload that nests a mapping under "arguments"
NestedCall(l) ==
    /\ l.op = "handed"
    /\ Structured(l.payload)
    /\ IsNested(Written(l.payload))

(***************************************************************************)
(* C25: for every tool, a payload {"arguments": D} is normalized exactly   *)
(* as D itself would be: the descriptor handed to the tool is the one the  *)
(* tool's normalizing step makes of D.                                     *)
(***************************************************************************)
C25_Claimed ==
    NestedCall(last)
      => last.descriptor =
           IF last.tool = "table_query"
           THEN NormalizeQueryArgs(CallerArgs(last.payload), eager, last.clock)
           ELSE CleanToolArgs(CallerArgs(last.payload))

\* table_insert is handed the payload as written, "arguments" and all, with an
\* empty where inside it left in place
C25_Witness ==
    /\ NestedCall(last)
    /\ last.tool = "table_insert"
    /\ last.descriptor = Written(last.payload)
    /\ "table" \notin DOMAIN last.descriptor
    /\ last.descriptor # CleanToolArgs(CallerArgs(last.payload))

\* the where keys of a call that are well-formed identifiers and no column of
\* the target table
StrangerKeys(l) ==
    {l.where.items[k].col : k \in 1..Len(l.where.items)}
      \ {n \in Names : HasBadChar(n) \/ n \in ColumnSet(l.table)}

StrangerCall(l) == WhereCall(l) /\ l.table \in ALLOWED_TABLES /\ StrangerKeys(l) # {}

(***************************************************************************)
(* C26: every where key of query, update and delete is checked against the *)
(* columns of the target table before any statement is executed.  A where  *)
(* key that is a well-formed identifier but no column of the table yields  *)
(* the schema error listing the name, and none of the call's SELECT,       *)
(* UPDATE or DELETE statements reaches storage.                            *)
(***************************************************************************)
C26_Claimed ==
    StrangerCall(last)
      => /\ last.err \in ValidationErrors
         /\ last.err = "invalid_column" => StrangerKeys(last) \subseteq last.bad
         /\ NoOwnStatement(last)

\* a delete by user_id, no column of medical_history: the DELETE statement is
\* handed to SQLite, which is the one to refuse it
C26_Witness ==
    /\ last.op = "delete" /\ last.table = "medical_history"
    /\ last.where = NoColumnWhere
    /\ last.err = "no_such_column"
    /\ "DELETE" \in Range(last.stmts)
    /\ last.bad = {}

(***************************************************************************)
(* table_query statement by statement.  Each agent starts a userdb.py of   *)
(* its own on the one health.db; the purge commits and a SELECT holds no   *)
(* transaction open once its rows are fetched, so the statements of a      *)
(* second server can take effect between the SELECT and the SELECT COUNT   *)
(* of a query.                                                             *)
(***************************************************************************)
\* table_query up to its SELECT: the rows are fetched, the count is to come
QueryFetch(table, where, limit, offset) ==
    /\ last.op # "fetched"
    /\ \E o \in TableQuery(db, seq, now, eager, table, NoneArg, where, NoneArg,
                           limit, offset) :
         /\ db' = o.db
         /\ seq' = o.seq
         /\ last' = ("between" :> {})
                      @@ [CallRecord(IF o.err = "" THEN "fetched" ELSE "query", table,
                                     NoValues, where, NoneArg, NoneArg, limit, offset,
                                     now, After(last), Purged(db, now, eager), o)
                            EXCEPT !.stmts = IF o.err = ""
                                             THEN SubSeq(o.stmts, 1, Len(o.stmts) - 1)
                                             ELSE o.stmts,
                                   !.rowCount = 0, !.nextOffset = NullV]
    /\ UNCHANGED <<now, eager>>

\* the rest of table_query: SELECT COUNT on the store as it is now, next_offset
QueryCount ==
    /\ last.op = "fetched"
    /\ \E total \in {CountRows(db[last.table], BuildWhere(last.where).clauses)} :
         last' = [last EXCEPT !.op = "query",
                              !.stmts = Append(@, "SELECT COUNT"),
                              !.rowCount = total,
                              !.nextOffset = NextOffset(last.limit, last.offset, total)]
    /\ UNCHANGED <<now, eager, db, seq>>

\* a call on the same server: it starts when the query before it has returned
Sequential(call) == last.op # "fetched" /\ call

\* the second server inserts between the two statements of the query
OtherInsert(cap, table, values) ==
    /\ last.op = "fetched"
    /\ \E o \in {TableInsert(db, seq, now, eager, table, values)} :
         /\ InBounds(o.db, o.seq, cap)
         /\ db' = o.db
         /\ seq' = o.seq
    /\ last' = [last EXCEPT !.between = @ \cup {"insert"}]
    /\ UNCHANGED <<now, eager>>

\* the second server deletes between the two statements
OtherDelete(table, where) ==
    /\ last.op = "fetched"
    /\ \E o \in {TableDelete(db, seq, now, eager, table, where)} :
         /\ db' = o.db
         /\ seq' = o.seq
    /\ last' = [last EXCEPT !.between = @ \cup {"delete"}]
    /\ UNCHANGED <<now, eager>>

\* the second server is started between the two statements: lifespan purges
OtherPurge ==
    /\ last.op = "fetched"
    /\ db' = PurgeExpired(db, now)
    /\ last' = [last EXCEPT !.between = @ \cup {"purge"}]
    /\ UNCHANGED <<now, eager, seq>>

\* <<table, values>>
SnapshotInserts(clock) ==
    { <<"food_24h", FreshFood(clock)>>,
      <<"food_24h", StaleFood(clock)>> }

\* <<table, where, limit, offset>>
SnapshotQueries ==
    { <<"food_24h", w, limit, offset>> :
        w \in {NoneArg, IdAtLeast(2)}, limit \in {1, MaxRows + 1}, offset \in {0, 1} }
    \cup
    { <<"food_24h", BadOpWhere, 1, 0>> }

NextSnapshot ==
    \/ \E c \in SnapshotInserts(now) : Sequential(InsertUpTo(MaxRows + 1, c[1], c[2]))
    \/ Sequential(Delete("food_24h", ById(1)))
    \/ \E c \in SnapshotQueries : QueryFetch(c[1], c[2], c[3], c[4])
    \/ QueryCount
    \/ \E c \in SnapshotInserts(now) : OtherInsert(MaxRows + 1, c[1], c[2])
    \/ OtherDelete("food_24h", ById(1))
    \/ OtherPurge

SpecSnapshot == Init /\ [][NextSnapshot]_vars

\* a query that returned, for a limit of at least 1 and an offset of at least 0
Returned(l) == l.op = "query" /\ l.err = "" /\ l.limit >= 1 /\ l.offset >= 0

\* the rows returned are the page of rowCount rows that limit and offset give
SelfConsistent(l) == Len(l.rows) = Min({l.limit, Max({0, l.rowCount - l.offset})})

(***************************************************************************)
(* C27: a query is no snapshot read.  Its fetch and its count are separate *)
(* statements; when nothing takes effect between them, as with a single    *)
(* sequential caller, the result is self-consistent:                       *)
(* len(rows) = min(limit, max(0, rowCount - offset)) for limit >= 1 and    *)
(* offset >= 0, and rowCount and nextOffset are those of the store the     *)
(* rows were fetched from.  A result that is not self-consistent has had   *)
(* an insert, a delete or a purge of a second caller between the two.      *)
(***************************************************************************)
C27_NoSnapshot ==
    (Returned(last) /\ last.between = {})
      => /\ SelfConsistent(last)
         /\ last.rowCount = CountRows(db[last.table], BuildWhere(last.where).clauses)
         /\ last.stmts[Len(last.stmts)] = "SELECT COUNT"
         /\ last.stmts[Len(last.stmts) - 1] = "SELECT"

\* the second caller deleted the only row after it was fetched: the query
\* returns one row, rowCount 0 and no next offset
C27_Witness ==
    /\ Returned(last)
    /\ "delete" \in last.between
    /\ Len(last.rows) = 1 /\ last.rowCount = 0 /\ last.nextOffset = NullV
    /\ ~SelfConsistent(last)

(***************************************************************************)
(* A condition over the weeks: it is recorded, set to recovered, updated   *)
(* again, and the Retention Sweeper runs at the start of the server and,   *)
(* in src/userdb.py, of every tool call.                                   *)
(***************************************************************************)
Week == 7 * Day
MaxWeeks == MaxTicks + 2

\* a week passes between two calls
WeekPasses ==
    /\ now + Week <= T0 + MaxWeeks * Week
    /\ now' = now + Week
    /\ last' = NoCall("tick", now + Week, <<>>, 0)
    /\ UNCHANGED <<eager, db, seq>>

IsFlu == Given(<<Lit("condition", Flu)>>)

\* <<table, values, where>>
GraceUpdates ==
    { <<"medical_history", ("status" :> Recovered), IsFlu>>,
      <<"medical_history", ("status" :> RecoveredLong), IsFlu>>,
      <<"medical_history", ("severity" :> Note), IsFlu>>,
      <<"medical_history", ("status" :> Recovered) @@ ("updated_at" :> IntV(T0 - 1)),
        IsFlu>> }

NextGrace ==
    \/ Lifespan
    \/ WeekPasses
    \/ InsertUpTo(MaxRows, "medical_history", ActiveCondition)
    \/ \E c \in GraceUpdates : Update(c[1], c[2], c[3])
    \/ Query("medical_history", NoneArg, NoneArg, NoneArg, 50, 0)

SpecGrace == Init /\ [][NextGrace]_vars

\* the step ran the Retention Sweeper at its clock
SweeperStep(l) == l.op = "lifespan" \/ (eager /\ IsToolCall(l))

\* the step's own statement rewrote the row
Rewrote(l, row) ==
    l.op \in {"update", "delete"} /\ l.err = "" /\ PageMatches(row, l.where)

\* the 14 days of a recovered row are over at the clock
GraceOver(row, clock) ==
    LikeRecovered(row["status"]) /\ clock >= row["updated_at"].i + TwoWeeks

(***************************************************************************)
(* C28: grace period.  An update at time t that does not supply updated_at *)
(* leaves the rows it matches with updated_at = t, a first or a later      *)
(* update alike.  A medical_history row whose status begins with           *)
(* "recovered" and whose updated_at is t survives every step at a time     *)
(* before t + 14 days unless the step's own update rewrites it, Sweeper    *)
(* runs included, and is gone after every Sweeper run at a time            *)
(* >= t + 14 days: the first such run removes it.                          *)
(***************************************************************************)
C28_GracePeriod ==
    [][/\ (UpdateDone(last') /\ "updated_at" \notin DOMAIN last'.values)
            => \A r \in db'[last'.table] :
                  PageMatches(r, last'.where) => r["updated_at"] = IntV(now)
       /\ \A r \in db["medical_history"] :
            /\ (LikeRecovered(r["status"]) /\ ~GraceOver(r, now') /\ ~Rewrote(last', r))
                  => r \in db'["medical_history"]
            /\ (GraceOver(r, now') /\ SweeperStep(last'))
                  => r \notin db'["medical_history"]]_vars

\* a condition recorded at T0 and set to recovered a week later has survived
\* the Sweeper run two weeks after T0: its 14 days count from the update
C28_Witness ==
    /\ last.op = "lifespan" /\ last.purged = 0
    /\ now = T0 + 2 * Week
    /\ \E r \in db["medical_history"] :
          /\ r["status"] = Recovered
          /\ r["created_at"] = IntV(T0)
          /\ r["updated_at"] = IntV(T0 + Week)

\* an agent query of food_24h whose payload carries no predicate, answered
FoodDefaulted(l) ==
    /\ l.op = "agent" /\ l.table = "food_24h" /\ l.err = ""
    /\ ~HasFilter(l.payload)

(***************************************************************************)
(* C29: at one clock value the default filter of a food_24h query and the  *)
(* Retention Sweeper's rule split the table the same way.  The predicate   *)
(* injected is taken_at >= now - 86400; the rows the query counts and      *)
(* returns are exactly the rows a Sweeper run at that clock retains, and   *)
(* the rows it leaves out are exactly the rows that run deletes; after a   *)
(* purge at the same instant the query returns every remaining row.        *)
(***************************************************************************)
C29_Partition ==
    FoodDefaulted(last)
      => /\ last.where = Given(<<Cond("taken_at", <<">", "=">>, IntV(last.clock - Day))>>)
         /\ last.rowCount = Cardinality(PurgeFood(db["food_24h"], last.clock))
         /\ Range(last.rows) = PurgeFood(db["food_24h"], last.clock)
         /\ db["food_24h"] \ Range(last.rows)
              = {r \in db["food_24h"] : r["taken_at"].i < last.clock - Day}
         /\ eager => Range(last.rows) = db["food_24h"]

\* src/agents/userdb.py holds a row taken exactly 24 hours ago and an older
\* one: the default query returns the first and leaves out the second
C29_Witness ==
    /\ FoodDefaulted(last)
    /\ ~eager
    /\ Cardinality(db["food_24h"]) = 2
    /\ last.rowCount = 1
    /\ \E r \in Range(last.rows) : r["taken_at"] = IntV(last.clock - Day)
    /\ \E r \in db["food_24h"] : r["taken_at"].i < last.clock - Day

(***************************************************************************)
(* A caller pages through a table: it queries, and while the result has a  *)
(* nextOffset it queries again with that offset and the same arguments.    *)
(* Nothing else is called before the paging has ended.                     *)
(***************************************************************************)
\* the lowest offset the model follows the caller to
MinOffset == 0 - (MaxRows + 2)

\* the ids of the rows of a result, in its order
IdsOf(rows) == [k \in 1..Len(rows) |-> rows[k]["id"].i]

\* the caller is between two pages
Paging(l) == l.op = "page" /\ l.err = "" /\ l.nextOffset # NullV

PageRecord(where, order_by, limit, offset, start, seen, o) ==
    ("start" :> start) @@ ("seen" :> seen \o IdsOf(o.rows))
      @@ CallRecord("page", "food_24h", NoValues, where, NoneArg, order_by, limit,
                    offset, now, NoAfter, Purged(db, now, eager), o)

\* the first query of a paging
FirstPage(where, order_by, limit, offset) ==
    /\ ~Paging(last)
    /\ \E o \in TableQuery(db, seq, now, eager, "food_24h", NoneArg, where, order_by,
                           limit, offset) :
         /\ db' = o.db
         /\ seq' = o.seq
         /\ last' = PageRecord(where, order_by, limit, offset, offset, <<>>, o)
    /\ UNCHANGED <<now, eager>>

\* the query again, with offset = nextOffset
NextPageCall ==
    /\ Paging(last)
    /\ last.nextOffset.i >= MinOffset
    /\ \E o \in TableQuery(db, seq, now, eager, "food_24h", NoneArg, last.where,
                           last.order_by, last.limit, last.nextOffset.i) :
         /\ db' = o.db
         /\ seq' = o.seq
         /\ last' = PageRecord(last.where, last.order_by, last.limit,
                               last.nextOffset.i, last.start, last.seen, o)
    /\ UNCHANGED <<now, eager>>

\* <<table, values>>
PagingInserts(clock) ==
    { <<"food_24h", FreshFood(clock)>>,
      <<"food_24h", ("name" :> Flu) @@ ("taken_at" :> IntV(clock))>> }

\* <<where, order_by, limit, offset>>
PagingQueries ==
    { <<NoneArg, Given(<<"id">>), limit, offset>> :
        limit \in (0 - 1)..(MaxRows + 1), offset \in (0 - 1)..1 }
    \cup
    { <<NamedTea, Given(<<"id">>), 1, 0>>, <<NoneArg, NoneArg, 1, 0>> }

NextPaging ==
    \/ \E c \in PagingInserts(now) : ~Paging(last) /\ InsertUpTo(MaxRows + 1, c[1], c[2])
    \/ \E c \in PagingQueries : FirstPage(c[1], c[2], c[3], c[4])
    \/ NextPageCall

\* the caller goes on: a paging that can query again does
SpecPaging == Init /\ [][NextPaging]_vars /\ WF_vars(NextPageCall)

\* the paging has ended: the result has no nextOffset
PagingDone(l) == l.op = "page" /\ l.err = "" /\ l.nextOffset = NullV

NoRepeat(seen) == \A i, j \in 1..Len(seen) : i # j => seen[i] # seen[j]

\* C30 as claimed: for every limit and offset the query accepts, a nextOffset
\* that is not null is greater than the offset of its call, and a caller who
\* queries again with offset = nextOffset on an unchanged table comes to a
\* result with nextOffset = null, having been returned each matching row once.
C30_Claimed ==
    /\ [](Paging(last) => last.nextOffset.i > last.offset)
    /\ [](PagingDone(last) =>
             (NoRepeat(last.seen) /\ Len(last.seen) = Max({0, last.rowCount - last.start})))
    /\ (Paging(last) ~> PagingDone(last))

(***************************************************************************)
(* C30 as amended: for every limit >= 1, a nextOffset that is not null is  *)
(* offset + limit, greater than the offset of its call, and the caller who *)
(* queries again with offset = nextOffset on an unchanged table comes to a *)
(* result with nextOffset = null.  When the paging began at an offset >= 0 *)
(* and is ordered by id, it has then returned the matching rows from that  *)
(* offset on, each exactly once.  A limit of 0 returns no row with         *)
(* nextOffset = offset for as long as offset < rowCount.                   *)
(***************************************************************************)
C30_Paging ==
    /\ []((Paging(last) /\ last.limit >= 1)
             => last.nextOffset = IntV(last.offset + last.limit))
    /\ []((PagingDone(last) /\ last.limit >= 1 /\ last.start >= 0
              /\ last.order_by = Given(<<"id">>))
             => (NoRepeat(last.seen)
                   /\ Len(last.seen) = Max({0, last.rowCount - last.start})))
    /\ []((Paging(last) /\ last.limit = 0)
             => (last.nextOffset = IntV(last.offset) /\ last.rows = <<>>))
    /\ ((Paging(last) /\ last.limit >= 1) ~> PagingDone(last))

\* two pages of one row each came, in the order of id, and the second ended
\* the paging
C30_Witness ==
    /\ PagingDone(last)
    /\ last.limit = 1 /\ last.start = 0 /\ last.offset = 1
    /\ last.order_by = Given(<<"id">>)
    /\ last.rowCount = 2 /\ last.seen = <<1, 2>>

=============================================================================
